---- MODULE Spec2Model ----
(***************************************************************************)
(* A model of the stivale boot-information parser: the tag registry        *)
(* (get_tag), the NUL-terminated string decoders, the sequence adapters    *)
(* over array-bearing tags and the SMP wake fields.                        *)
(*                                                                         *)
(* Addresses are naturals, 0 is the null pointer.  Option<T> is the record *)
(* [some |-> BOOLEAN, val |-> T].                                          *)
(***************************************************************************)
EXTENDS Integers, Sequences, FiniteSets, TLC

\* ------------------------------------------------------------------ bounds
\* Longest tag chain the bootloader lays out (also the number of addresses).
MaxChain == 3
\* Number of distinct tag identifiers in play.
MaxId == 3

Addr == 1..MaxChain
Ids == 1..MaxId
\* Saturation point of the ghost counter of examined records.
MaxExamined == MaxChain + 2

\* ------------------------------------------------------------------ state
VARIABLES
    mem,          \* boot region: address -> StivaleTagHeader {identifier, next}
    tags,         \* StivaleStruct.tags: address of the first tag, 0 if none
    gt_pc,        \* get_tag: "idle", "loop" (inside the while), "done" (returned)
    gt_id,        \* get_tag: the identifier argument
    current_tag,  \* get_tag: the local current_tag pointer
    gt_ret,       \* get_tag: the returned Option<u64>
    examined,     \* ghost: records whose identifier this call has compared
    derefs,       \* ghost: addresses this call has dereferenced
    smp_info,     \* StivaleSmpTag.smp_info_array: index -> StivaleSmpInfo
    build,        \* how the build orders the kernel's two plain stores
    k_pc,         \* waking kernel, per core: "idle", "stack_written", "goto_written"
    pending,      \* per core: stores the kernel has executed, not yet visible
    wake_stack,   \* ghost, per core: the target_stack value the kernel wrote
    ap_pc,        \* parked core: "polling", "woken", "running"
    ap_goto,      \* parked core: the goto_address value it observed
    ap_stack,     \* parked core: the stack pointer it loaded
    bootloader_brand,    \* root structure: [u8; 64]
    bootloader_version,  \* root structure: [u8; 64]
    memory_map,   \* memory-map tag: [entries_len, entry_array]
    modules,      \* modules tag: [module_len, modules_array]
    str_call,     \* the string accessor that returned last, "none" before any
    str_data,     \* the buffer that accessor decoded
    str_ret,      \* what it returned: [absent |-> BOOLEAN, str |-> bytes]
    iters,        \* the sequence adapters in use, by slot
    framebuffer,  \* framebuffer tag: [address, width, height, pitch, bpp]
    profile,      \* build profile: "debug" checks integer overflow, "release" wraps
    dv_call,      \* the getter that ran last and the index of its entry: [fn, i]
    dv_ret,       \* what it did: [panicked |-> BOOLEAN, val |-> number]
    hb_kind,      \* type of the header value under construction, "none" before new()
    hb_arg,       \* the argument new() was given (0 where it takes none)
    hb_val,       \* the value built so far: field name -> content
    hb_prev,      \* the receiver of the last setter
    hb_ops,       \* the setters applied since new(): [setter, args] each
    acc,          \* the typed accessor called last, "none" before any
    acc_ret,      \* its result once it returned: [returned, view]
    readers,      \* concurrent readers of the region, each with its own locals
    gt_log,       \* ghost: an earlier get_tag call, as its caller saw it
    term,         \* terminal tag's term_write field and the contexts writing
    v1            \* stivale1 boot: the memory words, the root address, the view

tagVars == <<mem, tags, gt_pc, gt_id, current_tag, gt_ret, examined, derefs>>

smpVars ==
    <<smp_info, build, k_pc, pending, wake_stack, ap_pc, ap_goto, ap_stack>>

\* The array-bearing tags of the boot region.
arrVars == <<memory_map, modules>>

strVars == <<bootloader_brand, bootloader_version, str_call, str_data, str_ret>>

\* The scalar getters and derived values of the typed tag views.
dvVars == <<framebuffer, profile, dv_call, dv_ret>>

\* The header value a kernel builds at link time.
hbVars == <<hb_kind, hb_arg, hb_val, hb_prev, hb_ops>>

\* The typed accessors of the root structure.
accVars == <<acc, acc_ret>>

\* The parts added around the single-threaded parser: concurrent readers,
\* the record of an earlier lookup, the terminal writers and the stivale1
\* structure.
extVars == <<readers, gt_log, term, v1>>

\* The single-threaded parser and the boot region it reads.
coreVars ==
    <<tagVars, smpVars, arrVars, strVars, iters, dvVars, hbVars, accVars>>

vars == <<coreVars, extVars>>

\* What each part of the model leaves alone.
notReaderVars == <<coreVars, gt_log, term, v1>>
notLogVars == <<readers, term, v1>>
notTermVars == <<coreVars, readers, gt_log, v1>>
notV1Vars == <<coreVars, readers, gt_log, term>>
notTagVars ==
    <<smpVars, arrVars, strVars, iters, dvVars, hbVars, accVars, extVars>>
notSmpVars ==
    <<tagVars, arrVars, strVars, iters, dvVars, hbVars, accVars, extVars>>
notStrVars ==
    <<tagVars, smpVars, iters, dvVars, hbVars, accVars, extVars>>
notIterVars ==
    <<tagVars, smpVars, arrVars, strVars, dvVars, hbVars, accVars, extVars>>
notDvVars ==
    <<tagVars, smpVars, strVars, iters, hbVars, accVars, extVars>>
notHbVars ==
    <<tagVars, smpVars, arrVars, strVars, iters, dvVars, accVars, extVars>>
notAccVars ==
    <<smpVars, arrVars, strVars, iters, dvVars, hbVars, extVars>>

\* ------------------------------------------------------------ Option<u64>
None == [some |-> FALSE, val |-> 0]
Some(v) == [some |-> TRUE, val |-> v]

\* ------------------------------------------------------- 64-bit numbers
\* A u64 (or a wider exact result) is the sequence of its base-256 digits,
\* least significant first, without high zero digits; zero is <<>>.
RECURSIVE ToBig(_)
ToBig(n) == IF n = 0 THEN <<>> ELSE <<n % 256>> \o ToBig(n \div 256)

\* The digits of a without its high zero digits.
RECURSIVE Canon(_)
Canon(a) ==
    IF a = <<>> THEN <<>>
    ELSE IF a[Len(a)] = 0 THEN Canon(SubSeq(a, 1, Len(a) - 1))
    ELSE a

\* The i-th digit of a, zero beyond its length.
Digit(a, i) == IF i <= Len(a) THEN a[i] ELSE 0

\* The exact sum a + b, digit by digit from position i with a carry.
RECURSIVE AddFrom(_, _, _, _)
AddFrom(a, b, i, carry) ==
    IF i > Len(a) /\ i > Len(b)
    THEN ToBig(carry)
    ELSE LET d == Digit(a, i) + Digit(b, i) + carry
         IN <<d % 256>> \o AddFrom(a, b, i + 1, d \div 256)

BigAdd(a, b) == Canon(AddFrom(a, b, 1, 0))

\* The exact product a * k for a factor k below 2^16.
RECURSIVE MulFrom(_, _, _, _)
MulFrom(a, k, i, carry) ==
    IF i > Len(a)
    THEN ToBig(carry)
    ELSE LET d == a[i] * k + carry
         IN <<d % 256>> \o MulFrom(a, k, i + 1, d \div 256)

BigMul(a, k) == Canon(MulFrom(a, k, 1, 0))

\* a < b, comparing from the most significant digit down.
RECURSIVE LessFrom(_, _, _)
LessFrom(a, b, i) ==
    IF i = 0 THEN FALSE
    ELSE IF Digit(a, i) # Digit(b, i) THEN Digit(a, i) < Digit(b, i)
    ELSE LessFrom(a, b, i - 1)

BigLess(a, b) ==
    LessFrom(a, b, IF Len(a) > Len(b) THEN Len(a) ELSE Len(b))

\* The exact difference a - b for a >= b, digit by digit with a borrow.
RECURSIVE SubFrom(_, _, _, _)
SubFrom(a, b, i, borrow) ==
    IF i > Len(a)
    THEN <<>>
    ELSE LET d == Digit(a, i) - Digit(b, i) - borrow
         IN IF d < 0
            THEN <<d + 256>> \o SubFrom(a, b, i + 1, 1)
            ELSE <<d>> \o SubFrom(a, b, i + 1, 0)

BigSub(a, b) == Canon(SubFrom(a, b, 1, 0))

\* 2^64 and the largest u64.
Two64 == [i \in 1..9 |-> IF i = 9 THEN 1 ELSE 0]
MaxU64 == [i \in 1..8 |-> 255]

\* The number fits a u64; its value modulo 2^64.
Fits64(a) == Len(Canon(a)) <= 8
Wrap64(a) == Canon(SubSeq(a, 1, IF Len(a) < 8 THEN Len(a) ELSE 8))

\* ------------------------------------------------------------ boot region
\* Injective sequences over S of length n: the addresses of a chain in order.
RECURSIVE InjSeqs(_, _)
InjSeqs(S, n) ==
    IF n = 0 THEN {<<>>}
    ELSE UNION {{<<a>> \o s : s \in InjSeqs(S \ {a}, n - 1)} : a \in S}

\* The region a conformant bootloader writes for the chain `addrs` whose k-th
\* record carries identifier ids[k]: the last record's next pointer is zero.
TagHeaders(addrs, ids) ==
    [a \in {addrs[k] : k \in 1..Len(addrs)} |->
        LET k == CHOOSE j \in 1..Len(addrs) : addrs[j] = a
        IN [identifier |-> ids[k],
            next |-> IF k = Len(addrs) THEN 0 ELSE addrs[k + 1]]]

\* &*current_tag: the record at address a.  Outside the mapped region the
\* read is undefined; the model hands back a zeroed header.
Deref(a) ==
    IF a \in DOMAIN mem THEN mem[a] ELSE [identifier |-> 0, next |-> 0]

\* The chain as laid out in memory: the addresses reached from `a` by
\* following next pointers, at most `fuel` of them.
RECURSIVE ChainFrom(_, _)
ChainFrom(a, fuel) ==
    IF a = 0 \/ fuel = 0 \/ a \notin DOMAIN mem THEN <<>>
    ELSE <<a>> \o ChainFrom(mem[a].next, fuel - 1)

Chain == ChainFrom(tags, MaxChain + 1)

\* ------------------------------------------------------------- idle parts
\* A boot region without an SMP tag: no descriptor, nobody waking or parked.
NoSmp ==
    /\ smp_info = <<>>
    /\ build = "program_order"
    /\ k_pc = <<>>
    /\ pending = <<>>
    /\ wake_stack = <<>>
    /\ ap_pc = <<>>
    /\ ap_goto = <<>>
    /\ ap_stack = <<>>

\* Program constants: the sizes of the fixed byte buffers.
BrandLen == 64
VersionLen == 64
ModuleStringLen == 128

\* The buffer of n NUL bytes.
Nuls(n) == [i \in 1..n |-> 0]

\* A boot region with no memory-map entry and no module.
NoArrays ==
    /\ memory_map = [entries_len |-> 0, entry_array |-> <<>>]
    /\ modules = [module_len |-> 0, modules_array |-> <<>>]

\* A root structure whose strings were not supplied, nothing decoded yet.
NoStrings ==
    /\ bootloader_brand = Nuls(BrandLen)
    /\ bootloader_version = Nuls(VersionLen)
    /\ str_call = "none"
    /\ str_data = <<>>
    /\ str_ret = [absent |-> TRUE, str |-> <<>>]

\* A boot region without a framebuffer tag, no getter called yet.
NoDerived ==
    /\ framebuffer =
        [address |-> <<>>, width |-> 0, height |-> 0, pitch |-> 0, bpp |-> 0]
    /\ profile = "release"
    /\ dv_call = [fn |-> "none", i |-> 0]
    /\ dv_ret = [panicked |-> FALSE, val |-> <<>>]

\* No typed accessor called yet.
NoAcc ==
    /\ acc = "none"
    /\ acc_ret = [returned |-> FALSE, view |-> None]

\* No reader is running.
NoReaders == readers = <<>>

\* No lookup has been recorded.
NoLog == gt_log = [set |-> FALSE, id |-> 0, ret |-> None, examined |-> 0]

\* A boot region without a terminal tag; nobody writes to the terminal.
NoTerm == term = [term_write_addr |-> 0, ctx |-> <<>>]

\* The kernel was not booted by the stivale1 protocol.
NoV1 == v1 = [ram |-> <<>>, root |-> 0]

\* Nothing but the single-threaded parser is in use.
NoExt == NoReaders /\ NoLog /\ NoTerm /\ NoV1

\* No header value under construction.
NoBuilder ==
    /\ hb_kind = "none"
    /\ hb_arg = 0
    /\ hb_val = <<>>
    /\ hb_prev = <<>>
    /\ hb_ops = <<>>

\* Option<&Entry> as the last result of an adapter's next(); NotCalled
\* before the first call.
NoElem == [none |-> TRUE]
NotCalled == [called |-> FALSE, some |-> FALSE, val |-> NoElem]
NoneElem == [called |-> TRUE, some |-> FALSE, val |-> NoElem]
SomeElem(e) == [called |-> TRUE, some |-> TRUE, val |-> e]

\* The adapter slots: two adapters are enough for an original and a clone,
\* or for an earlier and a fresh adapter over one tag.
Slots == {"a", "b"}

\* A slot holding no adapter.
DeadIter ==
    [live |-> FALSE, sref |-> "memory_map", current |-> 0,
     origin |-> "iter", start |-> 0, yielded |-> <<>>, last |-> NotCalled]

\* No adapter has been made.
NoIters == iters = [a \in Slots |-> DeadIter]

\* A boot region whose tag chain is empty, with no lookup running.
NoTags ==
    /\ mem = <<>>
    /\ tags = 0
    /\ gt_pc = "idle"
    /\ gt_id = 0
    /\ current_tag = 0
    /\ gt_ret = None
    /\ examined = 0
    /\ derefs = {}

\* --------------------------------------------------------------- get_tag
\* Mutant of GetTagCall: the walk starts at the first record's successor.
GetTagCall_SkipFirst(identifier) ==
    /\ gt_pc = "idle"
    /\ gt_pc' = "loop"
    /\ gt_id' = identifier
    /\ current_tag' = Deref(tags).next
    /\ gt_ret' = None
    /\ examined' = 0
    /\ derefs' = {}
    /\ UNCHANGED <<notTagVars, mem, tags>>

\* A get_tag with a cursor that outlives the call: only the first call
\* starts at the root's tags field, a later one goes on where the last
\* stopped.
GetTagCall_Resume(identifier) ==
    /\ gt_pc = "idle"
    /\ gt_pc' = "loop"
    /\ gt_id' = identifier
    /\ current_tag' = IF gt_id = 0 THEN tags ELSE current_tag
    /\ gt_ret' = None
    /\ examined' = 0
    /\ derefs' = {}
    /\ UNCHANGED <<notTagVars, mem, tags>>

\* let mut current_tag = self.tags as *const StivaleTagHeader;
GetTagCall(identifier) ==
    /\ gt_pc = "idle"
    /\ gt_pc' = "loop"
    /\ gt_id' = identifier
    /\ current_tag' = tags
    /\ gt_ret' = None
    /\ examined' = 0
    /\ derefs' = {}
    /\ UNCHANGED <<notTagVars, mem, tags>>

\* Mutant of LoopCond: the null check is missing.
LoopCond_NoNullCheck == TRUE

\* while !current_tag.is_null()
LoopCond == current_tag # 0

\* Mutant of GetTagCompare: a match returns the successor's address.
GetTagCompare_ReturnNext ==
    /\ gt_pc = "loop"
    /\ LoopCond
    /\ LET tag == Deref(current_tag) IN
        /\ derefs' = derefs \cup {current_tag}
        /\ examined' = IF examined < MaxExamined THEN examined + 1 ELSE examined
        /\ IF tag.identifier = gt_id
           THEN /\ gt_ret' = Some(tag.next)
                /\ gt_pc' = "done"
                /\ UNCHANGED current_tag
           ELSE /\ current_tag' = tag.next
                /\ UNCHANGED <<gt_ret, gt_pc>>
    /\ UNCHANGED <<notTagVars, mem, tags, gt_id>>

\* Mutant of GetTagCompare: a mismatch does not advance the pointer.
GetTagCompare_NoAdvance ==
    /\ gt_pc = "loop"
    /\ LoopCond
    /\ LET tag == Deref(current_tag) IN
        /\ derefs' = derefs \cup {current_tag}
        /\ examined' = IF examined < MaxExamined THEN examined + 1 ELSE examined
        /\ IF tag.identifier = gt_id
           THEN /\ gt_ret' = Some(current_tag)
                /\ gt_pc' = "done"
           ELSE UNCHANGED <<gt_ret, gt_pc>>
        /\ UNCHANGED current_tag
    /\ UNCHANGED <<notTagVars, mem, tags, gt_id>>

\* A loop that detects a cycle: it gives up with None at a record it has
\* already dereferenced in this call.
GetTagCompare_CycleCheck ==
    /\ gt_pc = "loop"
    /\ LoopCond
    /\ LET tag == Deref(current_tag) IN
        /\ derefs' = derefs \cup {current_tag}
        /\ examined' = IF examined < MaxExamined THEN examined + 1 ELSE examined
        /\ IF current_tag \in derefs
           THEN /\ gt_ret' = None
                /\ gt_pc' = "done"
                /\ UNCHANGED current_tag
           ELSE IF tag.identifier = gt_id
           THEN /\ gt_ret' = Some(current_tag)
                /\ gt_pc' = "done"
                /\ UNCHANGED current_tag
           ELSE /\ current_tag' = tag.next
                /\ UNCHANGED <<gt_ret, gt_pc>>
    /\ UNCHANGED <<notTagVars, mem, tags, gt_id>>

\* One turn of the while loop: compare the record's identifier, return the
\* current address on a match, otherwise advance to tag.next.
GetTagCompare ==
    /\ gt_pc = "loop"
    /\ LoopCond
    /\ LET tag == Deref(current_tag) IN
        /\ derefs' = derefs \cup {current_tag}
        /\ examined' = IF examined < MaxExamined THEN examined + 1 ELSE examined
        /\ IF tag.identifier = gt_id
           THEN /\ gt_ret' = Some(current_tag)
                /\ gt_pc' = "done"
                /\ UNCHANGED current_tag
           ELSE /\ current_tag' = tag.next
                /\ UNCHANGED <<gt_ret, gt_pc>>
    /\ UNCHANGED <<notTagVars, mem, tags, gt_id>>

\* The loop condition fails: fall out of the while and return None.
GetTagExit ==
    /\ gt_pc = "loop"
    /\ ~LoopCond
    /\ gt_ret' = None
    /\ gt_pc' = "done"
    /\ UNCHANGED <<notTagVars, mem, tags, gt_id, current_tag, examined, derefs>>

\* The caller takes the result; the next call starts afresh.
GetTagReturn ==
    /\ gt_pc = "done"
    /\ gt_pc' = "idle"
    /\ UNCHANGED <<notTagVars, mem, tags, gt_id, current_tag, gt_ret, examined, derefs>>

InitTag ==
    /\ \E n \in 0..MaxChain :
        \E addrs \in InjSeqs(Addr, n) :
            \E ids \in [1..n -> Ids] :
                /\ mem = TagHeaders(addrs, ids)
                /\ tags = IF n = 0 THEN 0 ELSE addrs[1]
    /\ gt_pc = "idle"
    /\ gt_id = 0
    /\ current_tag = 0
    /\ gt_ret = None
    /\ examined = 0
    /\ derefs = {}
    /\ NoSmp
    /\ NoArrays
    /\ NoStrings
    /\ NoIters
    /\ NoDerived
    /\ NoBuilder
    /\ NoAcc
    /\ NoExt

NextTag ==
    \/ \E identifier \in Ids : GetTagCall(identifier)
    \/ GetTagCompare
    \/ GetTagExit
    \/ GetTagReturn

SpecTag == InitTag /\ [][NextTag]_vars

\* get_tag is straight-line sequential code: once inside the loop the
\* processor keeps executing it, so each loop step is weakly fair.
SpecTagFair ==
    InitTag /\ [][NextTag]_vars /\ WF_vars(GetTagCompare) /\ WF_vars(GetTagExit)

\* ------------------------------------------------- tag registry properties
\* The k-th record of the chain (k from 1) carries identifier id.
Carries(k, id) == mem[Chain[k]].identifier = id

\* The positions of the chain whose record carries id.
Carriers(id) == {k \in 1..Len(Chain) : Carries(k, id)}

\* C1: when get_tag(identifier) has returned and the record at position k
\* (1-based here, k-1 in the claim's 0-based count) is the first to carry the
\* identifier, the result is that record's address and exactly k records
\* have been compared.
C1_FoundAtFirstCarrier ==
    gt_pc = "done" =>
        \A k \in 1..Len(Chain) :
            (Carries(k, gt_id) /\ \A j \in 1..(k - 1) : ~Carries(j, gt_id))
                => (gt_ret = Some(Chain[k]) /\ examined = k)

C1_Witness ==
    /\ gt_pc = "done"
    /\ Len(Chain) >= 3
    /\ Carriers(gt_id) = {3}
    /\ examined = 3

\* C2: for an identifier carried by no record of the chain (the empty chain
\* included) get_tag never dereferences the zero pointer, and when it has
\* returned the result is None and all n records have been compared.
C2_AbsentYieldsNone ==
    (gt_pc # "idle" /\ Carriers(gt_id) = {}) =>
        /\ 0 \notin derefs
        /\ gt_pc = "done" => (gt_ret = None /\ examined = Len(Chain))

C2_Witness ==
    /\ gt_pc = "done"
    /\ Carriers(gt_id) = {}
    /\ Len(Chain) >= 2
    /\ gt_ret = None

\* C3: when several records carry the identifier, the returned address is
\* that of the carrier that comes first in chain order and of no later one.
C3_FirstDuplicateWins ==
    (gt_pc = "done" /\ Cardinality(Carriers(gt_id)) >= 2) =>
        /\ gt_ret.some
        /\ \E k \in Carriers(gt_id) :
            /\ gt_ret.val = Chain[k]
            /\ \A j \in Carriers(gt_id) : k <= j

C3_Witness ==
    /\ gt_pc = "done"
    /\ Cardinality(Carriers(gt_id)) >= 2
    /\ 1 \notin Carriers(gt_id)
    /\ gt_ret.some

\* C4: on a finite null-terminated chain every get_tag call that has entered
\* its loop returns, and it never compares more records than the chain holds.
C4_TerminatesWithinChain ==
    /\ [](examined <= Len(Chain))
    /\ (gt_pc = "loop") ~> (gt_pc = "done")

C4_Witness ==
    /\ gt_pc = "done"
    /\ Len(Chain) >= 2
    /\ examined = Len(Chain)

\* ------------------------------------------------------------ SMP wake-up
\* Logical CPUs of the SMP tag, the BSP (index 1) included.
MaxCpu == 3

\* Stack pointers and entry addresses the kernel may hand to a core; zero is
\* what the bootloader leaves in a parked core's descriptor.
StackPtrs == {16, 32}
GotoAddrs == {1, 2}

\* StivaleSmpInfo as the bootloader leaves it for a parked core.
ParkedInfo(i) ==
    [lapic_id |-> i - 1, target_stack |-> 0, goto_address |-> 0]

\* as_slice_mut: the cpu_count descriptors of the trailing array, writable.
as_slice_mut == DOMAIN smp_info

\* The application processors: every descriptor but the BSP's.
APs == as_slice_mut \ {1}

\* slice[c].target_stack = s: a plain store through the &mut slice.
KernelStoreStack(c, s) ==
    /\ c \in APs
    /\ k_pc[c] = "idle"
    /\ pending' = [pending EXCEPT ![c] = Append(@, <<"target_stack", s>>)]
    /\ wake_stack' = [wake_stack EXCEPT ![c] = s]
    /\ k_pc' = [k_pc EXCEPT ![c] = "stack_written"]
    /\ UNCHANGED <<notSmpVars, smp_info, build, ap_pc, ap_goto, ap_stack>>

\* slice[c].goto_address = g: the next plain store in program order.
KernelStoreGoto(c, g) ==
    /\ c \in APs
    /\ k_pc[c] = "stack_written"
    /\ pending' = [pending EXCEPT ![c] = Append(@, <<"goto_address", g>>)]
    /\ k_pc' = [k_pc EXCEPT ![c] = "goto_written"]
    /\ UNCHANGED <<notSmpVars, smp_info, build, wake_stack, ap_pc, ap_goto, ap_stack>>

\* The sequence q without its i-th element.
Without(q, i) == SubSeq(q, 1, i - 1) \o SubSeq(q, i + 1, Len(q))

\* A store of the kernel reaches memory.  The fields are plain u64 and the
\* stores are neither atomic nor volatile while the parked core reads them: a
\* data race, so the build may emit the two stores in program order or swapped.
StoreVisible(c, i) ==
    /\ c \in APs
    /\ i \in 1..Len(pending[c])
    /\ build = "program_order" => i = 1
    /\ LET st == pending[c][i] IN
        smp_info' =
            IF st[1] = "target_stack"
            THEN [smp_info EXCEPT ![c].target_stack = st[2]]
            ELSE [smp_info EXCEPT ![c].goto_address = st[2]]
    /\ pending' = [pending EXCEPT ![c] = Without(@, i)]
    /\ UNCHANGED <<notSmpVars, build, k_pc, wake_stack, ap_pc, ap_goto, ap_stack>>

\* The parked core polls its own goto_address and sees it written.
ApPoll(c) ==
    /\ c \in APs
    /\ ap_pc[c] = "polling"
    /\ smp_info[c].goto_address # 0
    /\ ap_goto' = [ap_goto EXCEPT ![c] = smp_info[c].goto_address]
    /\ ap_pc' = [ap_pc EXCEPT ![c] = "woken"]
    /\ UNCHANGED <<notSmpVars, smp_info, build, k_pc, pending, wake_stack, ap_stack>>

\* The woken core loads ESP/RSP from target_stack and calls goto_address.
ApLoadStack(c) ==
    /\ c \in APs
    /\ ap_pc[c] = "woken"
    /\ ap_stack' = [ap_stack EXCEPT ![c] = smp_info[c].target_stack]
    /\ ap_pc' = [ap_pc EXCEPT ![c] = "running"]
    /\ UNCHANGED <<notSmpVars, smp_info, build, k_pc, pending, wake_stack, ap_goto>>

InitSmp ==
    /\ NoTags
    /\ NoArrays
    /\ NoStrings
    /\ NoIters
    /\ NoDerived
    /\ NoBuilder
    /\ NoAcc
    /\ NoExt
    /\ \E cpu_count \in 2..MaxCpu :
        /\ smp_info = [i \in 1..cpu_count |-> ParkedInfo(i)]
        /\ k_pc = [i \in 1..cpu_count |-> "idle"]
        /\ pending = [i \in 1..cpu_count |-> <<>>]
        /\ wake_stack = [i \in 1..cpu_count |-> 0]
        /\ ap_pc = [i \in 1..cpu_count |-> "polling"]
        /\ ap_goto = [i \in 1..cpu_count |-> 0]
        /\ ap_stack = [i \in 1..cpu_count |-> 0]
    /\ build \in {"program_order", "reordered"}

NextSmp ==
    \/ \E c \in 1..MaxCpu, s \in StackPtrs : KernelStoreStack(c, s)
    \/ \E c \in 1..MaxCpu, g \in GotoAddrs : KernelStoreGoto(c, g)
    \/ \E c \in 1..MaxCpu, i \in 1..2 : StoreVisible(c, i)
    \/ \E c \in 1..MaxCpu : ApPoll(c)
    \/ \E c \in 1..MaxCpu : ApLoadStack(c)

SpecSmp == InitSmp /\ [][NextSmp]_vars

\* C5: a core that has observed its goto_address written and started running
\* runs on the target_stack the kernel wrote for it.
C5_StackPublishedBeforeGoto ==
    \A c \in APs : ap_pc[c] = "running" => ap_stack[c] = wake_stack[c]

\* ---------------------------------------------------------- string decoding
\* Longest explicit prefix of a generated buffer; the rest is padding.
MaxPrefix == 2

\* Bytes of a generated prefix (NUL and 'a') and of the padding (NUL and 'b').
PrefixBytes == {0, 97}
PadBytes == {0, 98}

\* The n-byte buffer that starts with p and is filled up with the byte q.
Pad(p, q, n) == [i \in 1..n |-> IF i <= Len(p) THEN p[i] ELSE q]

\* "abc" followed by NULs, n bytes in all.
Abc(n) == Pad(<<97, 98, 99>>, 0, n)

\* The n-byte buffers a bootloader may hand over: with or without a NUL, the
\* NUL first, in the middle or missing, and bytes of either kind behind it.
Buffers(n) ==
    {Pad(p, q, n) :
        p \in UNION {[1..k -> PrefixBytes] : k \in 0..MaxPrefix}, q \in PadBytes}
    \cup {Abc(n)}

\* Option<&str>
NoneStr == [some |-> FALSE, val |-> <<>>]
SomeStr(s) == [some |-> TRUE, val |-> s]

\* slice::from_raw_parts(ptr, len) over the start of a buffer.
from_raw_parts(data, len) == SubSeq(data, 1, len)

\* lib.rs:  while strlen < data.len() && data[strlen] != 0 { strlen += 1; }
RECURSIVE ScanU8(_, _)
ScanU8(data, strlen) ==
    IF strlen < Len(data) /\ data[strlen + 1] # 0
    THEN ScanU8(data, strlen + 1)
    ELSE strlen

\* A scan that stops one byte short of the end of the buffer.
RECURSIVE ScanSlice_StopShort(_, _)
ScanSlice_StopShort(slice, length) ==
    IF length + 1 < Len(slice) /\ slice[length + 1] # 0
    THEN ScanSlice_StopShort(slice, length + 1)
    ELSE length

\* utils.rs:  while length < slice.len() && slice[length] != 0 { length += 1; }
RECURSIVE ScanSlice(_, _)
ScanSlice(slice, length) ==
    IF length < Len(slice) /\ slice[length + 1] # 0
    THEN ScanSlice(slice, length + 1)
    ELSE length

\* The indices (from 0) at which either scan loop reads the buffer: the
\* loop comes to index i when no byte in front of it was NUL, and its
\* condition `i < len && data[i] != 0` reads data[i] only when i < len.
ScanReads(data) ==
    {i \in 0..Len(data) :
        /\ \A j \in 0..(i - 1) : data[j + 1] # 0
        /\ i < Len(data)}

\* Mutant of string_from_u8: the terminator is counted into the string.
string_from_u8_InclNul(data) ==
    IF data[1] = 0
    THEN NoneStr
    ELSE SomeStr(from_raw_parts(data, ScanU8(data, 0) + 1))

\* A string_from_u8 without the absent case: a leading NUL gives the empty
\* string.
string_from_u8_EmptyForNul(data) == SomeStr(from_raw_parts(data, ScanU8(data, 0)))

\* lib.rs string_from_u8: None when the first byte is NUL, otherwise the
\* bytes up to the first NUL (or the end of the buffer).
string_from_u8(data) ==
    IF data[1] = 0
    THEN NoneStr
    ELSE SomeStr(from_raw_parts(data, ScanU8(data, 0)))

\* utils.rs string_from_slice: the bytes up to the first NUL (or the end of
\* the buffer); it has no absent result.
string_from_slice(slice) == from_raw_parts(slice, ScanSlice(slice, 0))

\* What a caller sees of an Option<&str> and of a &str.
OfOption(r) == [absent |-> ~r.some, str |-> r.val]
OfStr(s) == [absent |-> FALSE, str |-> s]

\* An accessor that puts a NUL into the last byte of the brand buffer before
\* it returns.
Returned_Terminates(f, data, ret) ==
    /\ str_call' = f
    /\ str_data' = data
    /\ str_ret' = ret
    /\ bootloader_brand' = [bootloader_brand EXCEPT ![BrandLen] = 0]
    /\ UNCHANGED <<notStrVars, arrVars, bootloader_version>>

\* An accessor f has decoded the buffer data and returned ret.
Returned(f, data, ret) ==
    /\ str_call' = f
    /\ str_data' = data
    /\ str_ret' = ret
    /\ UNCHANGED <<notStrVars, arrVars, bootloader_brand, bootloader_version>>

\* lib.rs StivaleStructure::bootloader_brand
LegacyBootloaderBrand ==
    Returned("StivaleStructure::bootloader_brand", bootloader_brand,
             OfOption(string_from_u8(bootloader_brand)))

\* lib.rs StivaleStructure::bootloader_version
LegacyBootloaderVersion ==
    Returned("StivaleStructure::bootloader_version", bootloader_version,
             OfOption(string_from_u8(bootloader_version)))

\* v2/mod.rs StivaleStruct::bootloader_brand
BootloaderBrand ==
    Returned("StivaleStruct::bootloader_brand", bootloader_brand,
             OfStr(string_from_slice(bootloader_brand)))

\* v2/mod.rs StivaleStruct::bootloader_version
BootloaderVersion ==
    Returned("StivaleStruct::bootloader_version", bootloader_version,
             OfStr(string_from_slice(bootloader_version)))

\* module.rs Module::string, on the i-th module of the modules tag
ModuleString(i) ==
    /\ i \in 1..modules.module_len
    /\ Returned("Module::string", modules.modules_array[i].string,
                OfOption(string_from_u8(modules.modules_array[i].string)))

\* v2/tag.rs (and v1/mod.rs) StivaleModule::as_str
ModuleAsStr(i) ==
    /\ i \in 1..modules.module_len
    /\ Returned("StivaleModule::as_str", modules.modules_array[i].string,
                OfStr(string_from_slice(modules.modules_array[i].string)))

InitStr ==
    /\ NoTags
    /\ NoSmp
    /\ bootloader_brand \in Buffers(BrandLen)
    /\ bootloader_version \in Buffers(VersionLen)
    /\ memory_map = [entries_len |-> 0, entry_array |-> <<>>]
    /\ \E name \in Buffers(ModuleStringLen) :
        modules = [module_len |-> 1,
                   modules_array |->
                        <<[start |-> ToBig(4096), end |-> ToBig(8192), string |-> name]>>]
    /\ str_call = "none"
    /\ str_data = <<>>
    /\ str_ret = [absent |-> TRUE, str |-> <<>>]
    /\ NoIters
    /\ NoDerived
    /\ NoBuilder
    /\ NoAcc
    /\ NoExt

NextStr ==
    \/ LegacyBootloaderBrand
    \/ LegacyBootloaderVersion
    \/ BootloaderBrand
    \/ BootloaderVersion
    \/ \E i \in 1..modules.module_len : ModuleString(i)
    \/ \E i \in 1..modules.module_len : ModuleAsStr(i)

SpecStr == InitStr /\ [][NextStr]_vars

\* The buffer holds a NUL byte.
HasNul(buf) == \E i \in 1..Len(buf) : buf[i] = 0

\* The bytes of buf in front of its first NUL byte; all of buf if it has none.
BeforeFirstNul(buf) ==
    LET stops == {i \in 1..Len(buf) : buf[i] = 0}
        n == IF stops = {} THEN Len(buf) + 1
             ELSE CHOOSE i \in stops : \A j \in stops : i <= j
    IN [i \in 1..(n - 1) |-> buf[i]]

\* C6: decoding a buffer that holds a NUL and does not start with one gives
\* exactly the bytes in front of the first NUL, in order, whichever of the
\* two decoders is used; "abc" followed by NULs gives "abc".
C6_DecodesUpToFirstNul ==
    (str_call # "none" /\ HasNul(str_data) /\ str_data[1] # 0) =>
        /\ ~str_ret.absent
        /\ str_ret.str = BeforeFirstNul(str_data)
        /\ str_data = Abc(BrandLen) => str_ret.str = <<97, 98, 99>>
        /\ \A i \in 1..Len(str_ret.str) : str_ret.str[i] # 0

C6_Witness ==
    /\ str_call = "StivaleStructure::bootloader_brand"
    /\ str_data = Abc(BrandLen)
    /\ str_ret = [absent |-> FALSE, str |-> <<97, 98, 99>>]

\* The accessors of the bootloader brand and version, and of a module name.
BrandVersionCalls ==
    {"StivaleStructure::bootloader_brand", "StivaleStructure::bootloader_version",
     "StivaleStruct::bootloader_brand", "StivaleStruct::bootloader_version"}
ModuleNameCalls == {"Module::string", "StivaleModule::as_str"}

\* C7: bootloader_brand() and bootloader_version() return absent, and never
\* an empty string, when the buffer's first byte is NUL, and a non-empty
\* string in every other case.
C7_BrandAbsentNotEmpty ==
    str_call \in BrandVersionCalls =>
        /\ str_data[1] = 0 => str_ret.absent
        /\ str_data[1] # 0 => (~str_ret.absent /\ str_ret.str # <<>>)

\* C8: a module name is decoded by the brand/version rule: the bytes in
\* front of the first NUL when the first byte is not NUL, absent (and not
\* an empty string) when it is.
C8_ModuleNameSameRule ==
    str_call \in ModuleNameCalls =>
        /\ str_data[1] # 0 =>
            (~str_ret.absent /\ str_ret.str = BeforeFirstNul(str_data))
        /\ str_data[1] = 0 => str_ret.absent

\* ---------------------------------------------------------- sequence adapters
\* Longest trailing array of a memory-map or modules tag.
MaxEntries == 2

\* The elements of the set S of numbers as an ascending sequence.
RECURSIVE Ascending(_)
Ascending(S) ==
    IF S = {} THEN <<>>
    ELSE LET m == CHOOSE x \in S : \A y \in S : x <= y
         IN <<m>> \o Ascending(S \ {m})

\* StivaleMemoryMapEntry: one page at page number b, of type t.
MemoryMapEntry(b, t) ==
    [base |-> ToBig(b * 4096), length |-> ToBig(4096), entry_type |-> t]

EntryTypes == {"Usable", "Reserved"}

\* The memory maps a bootloader hands over: at most MaxEntries entries,
\* sorted by base address and not overlapping.
MemoryMaps ==
    UNION {{[i \in 1..Len(Ascending(B)) |-> MemoryMapEntry(Ascending(B)[i], ty[i])] :
                ty \in [1..Cardinality(B) -> EntryTypes]} :
           B \in SUBSET (0..(MaxEntries - 1))}

\* StivaleModule: the i-th module the bootloader loaded.
Module(i) ==
    [start |-> ToBig(i * 4096), end |-> ToBig(i * 4096 + 512),
     string |-> Pad(<<97, 96 + i>>, 0, ModuleStringLen)]

\* The trailing arrays of a modules tag: the first n modules.
ModuleArrays == {[i \in 1..n |-> Module(i)] : n \in 0..MaxEntries}

\* The tag's authoritative count field: entries_len / module_len.
Count(sref) ==
    IF sref = "memory_map" THEN memory_map.entries_len ELSE modules.module_len

\* as_slice(): from_raw_parts(array.as_ptr(), count) over the trailing array.
as_slice(sref) ==
    IF sref = "memory_map"
    THEN SubSeq(memory_map.entry_array, 1, memory_map.entries_len)
    ELSE SubSeq(modules.modules_array, 1, modules.module_len)

\* Mutant of iter: the cursor starts behind the first element.
iter_SkipFirst(sref) ==
    [live |-> TRUE, sref |-> sref, current |-> 1,
     origin |-> "iter", start |-> 0, yielded |-> <<>>, last |-> NotCalled]

\* StivaleMemoryMapTag::iter / StivaleModuleTag::iter: a reference to the
\* tag and a zero cursor.
iter(sref) ==
    [live |-> TRUE, sref |-> sref, current |-> 0,
     origin |-> "iter", start |-> 0, yielded |-> <<>>, last |-> NotCalled]

\* #[derive(Clone)]: the tag reference and the cursor value are copied.
clone(it) ==
    [live |-> TRUE, sref |-> it.sref, current |-> it.current,
     origin |-> "clone", start |-> it.current, yielded |-> <<>>, last |-> NotCalled]

\* Mutant of Advance: one cursor per tag, shared by all its adapters.
Advance_Shared(its, a) ==
    [b \in DOMAIN its |->
        IF its[b].live /\ its[b].sref = its[a].sref
        THEN [its[b] EXCEPT !.current = @ + 1]
        ELSE its[b]]

\* self.current += 1
Advance(its, a) == [its EXCEPT ![a].current = @ + 1]

\* let it = tag.iter()
Iter(a, sref) ==
    /\ iters' = [iters EXCEPT ![a] = iter(sref)]
    /\ UNCHANGED notIterVars

\* let it2 = it.clone()
IterClone(a, b) ==
    /\ a # b
    /\ iters[a].live
    /\ iters' = [iters EXCEPT ![b] = clone(iters[a])]
    /\ UNCHANGED notIterVars

\* Iterator::next, the element branch: current < count.
IterNextSome(a) ==
    /\ iters[a].live
    /\ iters[a].current < Count(iters[a].sref)
    /\ LET entry == as_slice(iters[a].sref)[iters[a].current + 1] IN
        iters' = [Advance(iters, a) EXCEPT
                    ![a].last = SomeElem(entry),
                    ![a].yielded = Append(@, entry)]
    /\ UNCHANGED notIterVars

\* An else branch that rewinds: None, and the cursor goes back to zero.
IterNextNone_Rewind(a) ==
    /\ iters[a].live
    /\ ~(iters[a].current < Count(iters[a].sref))
    /\ iters' = [iters EXCEPT ![a].last = NoneElem, ![a].current = 0]
    /\ UNCHANGED notIterVars

\* Iterator::next, the else branch: None, the cursor stays.
IterNextNone(a) ==
    /\ iters[a].live
    /\ ~(iters[a].current < Count(iters[a].sref))
    /\ iters' = [iters EXCEPT ![a].last = NoneElem]
    /\ UNCHANGED notIterVars

InitIter ==
    /\ NoTags
    /\ NoSmp
    /\ NoStrings
    /\ \E arr \in MemoryMaps :
        memory_map = [entries_len |-> Len(arr), entry_array |-> arr]
    /\ \E arr \in ModuleArrays :
        modules = [module_len |-> Len(arr), modules_array |-> arr]
    /\ NoIters
    /\ NoDerived
    /\ NoBuilder
    /\ NoAcc
    /\ NoExt

NextIter ==
    \/ \E a \in Slots, sref \in {"memory_map", "modules"} : Iter(a, sref)
    \/ \E a \in Slots, b \in Slots : IterClone(a, b)
    \/ \E a \in Slots : IterNextSome(a)
    \/ \E a \in Slots : IterNextNone(a)

SpecIter == InitIter /\ [][NextIter]_vars

\* The trailing array an adapter walks.
ArrayOf(it) ==
    IF it.sref = "memory_map" THEN memory_map.entry_array ELSE modules.modules_array

\* The memory map of the worked example.
ExampleMap ==
    <<[base |-> ToBig(0), length |-> ToBig(4096), entry_type |-> "Usable"],
      [base |-> ToBig(4096), length |-> ToBig(4096), entry_type |-> "Reserved"]>>

\* C9: an adapter made by iter() on a tag with count c has yielded, in order,
\* the elements at indices 0, 1, ... of the trailing array and never more than
\* c of them; a step yields none only when all c have been yielded (at once
\* for c = 0); this whatever the other adapter over the tag has done.  On
\* the example map the exhausted adapter has yielded exactly its two entries.
C9_FreshAdapterYieldsArray ==
    \A a \in Slots :
        (iters[a].live /\ iters[a].origin = "iter") =>
            LET it == iters[a]
                n == Len(it.yielded)
            IN /\ n <= Count(it.sref)
               /\ \A i \in 1..n : it.yielded[i] = ArrayOf(it)[i]
               /\ it.last.some => (n >= 1 /\ it.last.val = ArrayOf(it)[n])
               /\ (it.last.called /\ ~it.last.some) =>
                    (n = Count(it.sref) /\ it.yielded = ArrayOf(it))
               /\ (n < Count(it.sref)) => ENABLED IterNextSome(a)
               /\ (n = Count(it.sref)) => ~ENABLED IterNextSome(a)

C9_Witness ==
    /\ memory_map.entry_array = ExampleMap
    /\ iters["a"].live /\ iters["a"].origin = "iter"
    /\ iters["a"].sref = "memory_map"
    /\ iters["a"].yielded = ExampleMap
    /\ iters["a"].last = NoneElem
    /\ iters["b"].live /\ iters["b"].sref = "memory_map"
    /\ iters["b"].current = 1

\* C10: every adapter, a clone made at any cursor position included, stands
\* where its own steps have taken it from where it started, and has yielded
\* the elements from there on: steps of the other adapter change neither its
\* cursor nor the element it yields next.
C10_CloneHasOwnCursor ==
    \A a \in Slots :
        iters[a].live =>
            LET it == iters[a]
                n == Len(it.yielded)
            IN /\ it.current = it.start + n
               /\ \A i \in 1..n : it.yielded[i] = ArrayOf(it)[it.start + i]

C10_Witness ==
    /\ iters["a"].live /\ iters["a"].origin = "iter"
    /\ iters["b"].live /\ iters["b"].origin = "clone"
    /\ iters["a"].sref = iters["b"].sref
    /\ iters["b"].start = 1
    /\ iters["a"].current = 1
    /\ iters["b"].current = 2


\* ------------------------------------------------ getters of the tag views
\* The value an arithmetic expression of the code returns, or its panic.
Returns(v) == [panicked |-> FALSE, val |-> v]
Panics == [panicked |-> TRUE, val |-> <<>>]

\* A usize/u64 `+` or `*` whose exact result is `exact`: the debug profile
\* panics on overflow, the release profile keeps the low 64 bits.
Overflowing(exact, prof) ==
    IF Fits64(exact) THEN Returns(exact)
    ELSE IF prof = "debug" THEN Panics
    ELSE Returns(Wrap64(exact))

\* A u64 `a - b`: below zero the debug profile panics, the release profile
\* wraps to 2^64 + a - b.
Underflowing(a, b, prof) ==
    IF ~BigLess(a, b) THEN Returns(BigSub(a, b))
    ELSE IF prof = "debug" THEN Panics
    ELSE Returns(BigSub(BigAdd(a, Two64), b))

\* FramebufferTag::start_address(): `self.address as usize`.
FramebufferTag_start_address(fb) == Returns(fb.address)

\* A size() that multiplies the width, in pixels, where the code takes the
\* pitch, in bytes.
FramebufferTag_size_Width(fb, prof) ==
    LET rows == Overflowing(BigMul(ToBig(fb.width), fb.height), prof)
    IN IF rows.panicked THEN rows
       ELSE Overflowing(BigMul(rows.val, fb.bpp \div 8), prof)

\* A size() computed in 32-bit arithmetic: a product of 2^32 or more panics
\* in the debug profile and keeps its low 32 bits in the release profile.
FramebufferTag_size_U32(fb, prof) ==
    LET exact == BigMul(BigMul(ToBig(fb.pitch), fb.height), fb.bpp \div 8)
    IN IF Len(exact) <= 4 THEN Returns(exact)
       ELSE IF prof = "debug" THEN Panics
       ELSE Returns(Canon(SubSeq(exact, 1, 4)))

\* FramebufferTag::size(): pitch * height * (bpp / 8), in usize.
FramebufferTag_size(fb, prof) ==
    LET rows == Overflowing(BigMul(ToBig(fb.pitch), fb.height), prof)
    IN IF rows.panicked THEN rows
       ELSE Overflowing(BigMul(rows.val, fb.bpp \div 8), prof)

\* StivaleFramebufferTag::size(): the same product over the v2 tag's
\* framebuffer_pitch, framebuffer_height and framebuffer_bpp.
StivaleFramebufferTag_size(fb, prof) ==
    LET rows == Overflowing(BigMul(ToBig(fb.pitch), fb.height), prof)
    IN IF rows.panicked THEN rows
       ELSE Overflowing(BigMul(rows.val, fb.bpp \div 8), prof)

\* An end_address() that adds the bytes of one row only.
FramebufferTag_end_address_OneRow(fb, prof) ==
    Overflowing(BigAdd(fb.address, ToBig(fb.pitch)), prof)

\* FramebufferTag::end_address(): `self.address as usize + self.size()`.
FramebufferTag_end_address(fb, prof) ==
    LET sz == FramebufferTag_size(fb, prof)
    IN IF sz.panicked THEN sz
       ELSE Overflowing(BigAdd(fb.address, sz.val), prof)

\* MemoryMapEntry::start_address() and size(): the base and length fields.
MemoryMapEntry_start_address(e) == Returns(e.base)
MemoryMapEntry_size(e) == Returns(e.length)

\* An end_address() that returns the last byte of the region, not one past it.
MemoryMapEntry_end_address_Inclusive(e, prof) ==
    IF e.length = <<>> THEN Returns(e.base)
    ELSE Overflowing(BigAdd(e.base, BigSub(e.length, ToBig(1))), prof)

\* MemoryMapEntry::end_address() and StivaleMemoryMapEntry::end_address():
\* `self.base + self.length`.
MemoryMapEntry_end_address(e, prof) ==
    Overflowing(BigAdd(e.base, e.length), prof)

\* A size() that adds where the code subtracts.
StivaleModule_size_Sum(m, prof) == Overflowing(BigAdd(m.end, m.start), prof)

\* Module::size() and StivaleModule::size(): `self.end - self.start`.
StivaleModule_size(m, prof) == Underflowing(m.end, m.start, prof)


\* A getter ran on the entry at index i (0: the framebuffer tag) and did r.
Got(name, i, r) ==
    /\ dv_call' = [fn |-> name, i |-> i]
    /\ dv_ret' = r
    /\ UNCHANGED <<framebuffer, profile, arrVars, notDvVars>>

FbStartAddress ==
    Got("FramebufferTag::start_address", 0,
        FramebufferTag_start_address(framebuffer))

FbSize ==
    Got("FramebufferTag::size", 0, FramebufferTag_size(framebuffer, profile))

FbSizeV2 ==
    Got("StivaleFramebufferTag::size", 0,
        StivaleFramebufferTag_size(framebuffer, profile))

FbEndAddress ==
    Got("FramebufferTag::end_address", 0,
        FramebufferTag_end_address(framebuffer, profile))

EntryStartAddress(i) ==
    Got("MemoryMapEntry::start_address", i,
        MemoryMapEntry_start_address(memory_map.entry_array[i]))

EntrySize(i) ==
    Got("MemoryMapEntry::size", i, MemoryMapEntry_size(memory_map.entry_array[i]))

EntryEndAddress(i) ==
    Got("MemoryMapEntry::end_address", i,
        MemoryMapEntry_end_address(memory_map.entry_array[i], profile))

ModuleSize(i) ==
    Got("StivaleModule::size", i,
        StivaleModule_size(modules.modules_array[i], profile))

\* Framebuffer addresses: 0, 0xFD000000 and the largest u64.
FbAddresses == {<<>>, <<0, 0, 0, 253>>, MaxU64}

\* <<width, height, pitch>> of the framebuffers: 800x600 and 1024x768 at 4
\* bytes a pixel, an empty one and the largest a u16 can describe.
FbGeometries ==
    {<<800, 600, 3200>>, <<1024, 768, 4096>>, <<0, 0, 0>>,
     <<65535, 65535, 65535>>}

\* Bits per pixel, whole bytes and not.
FbBpps == {0, 7, 8, 24, 32, 65535}

FramebufferTags ==
    {[address |-> a, width |-> g[1], height |-> g[2], pitch |-> g[3], bpp |-> b] :
        a \in FbAddresses, g \in FbGeometries, b \in FbBpps}

\* Region bounds a bootloader may report: 0, 4 KiB, 2^63 and the largest u64.
EdgeU64 == {<<>>, ToBig(4096), <<0, 0, 0, 0, 0, 0, 0, 128>>, MaxU64}

\* Memory maps of a single entry at the edges of the u64 range.
EdgeMaps ==
    {[entries_len |-> 1,
           entry_array |-> <<[base |-> b, length |-> l, entry_type |-> "Usable"]>>] :
            b \in EdgeU64, l \in EdgeU64}

\* One module record, its end before, at or after its start.
EdgeModules ==
    {[module_len |-> 1,
      modules_array |-> <<[start |-> st, end |-> en,
                           string |-> Pad(<<97>>, 0, ModuleStringLen)]>>] :
        st \in EdgeU64 \ {<<0, 0, 0, 0, 0, 0, 0, 128>>},
        en \in EdgeU64 \ {<<0, 0, 0, 0, 0, 0, 0, 128>>}}

\* An ordinary boot: an 800x600 framebuffer at 0xFD000000, the two adjacent
\* regions, one module of 4 KiB.
BootFramebuffer ==
    [address |-> <<0, 0, 0, 253>>, width |-> 800, height |-> 600,
     pitch |-> 3200, bpp |-> 32]
BootMap ==
    [entries_len |-> 2, entry_array |-> <<MemoryMapEntry(0, "Usable"),
                                           MemoryMapEntry(1, "Reserved")>>]
BootModules ==
    [module_len |-> 1,
     modules_array |-> <<[start |-> ToBig(4096), end |-> ToBig(8192),
                          string |-> Pad(<<97>>, 0, ModuleStringLen)]>>]

InitDerived ==
    /\ NoTags
    /\ NoSmp
    /\ NoStrings
    /\ NoIters
    /\ NoBuilder
    /\ NoAcc
    /\ NoExt
    /\ \/ /\ framebuffer \in FramebufferTags
          /\ memory_map = BootMap
          /\ modules = BootModules
       \/ /\ framebuffer = BootFramebuffer
          /\ memory_map \in EdgeMaps
          /\ modules = BootModules
       \/ /\ framebuffer = BootFramebuffer
          /\ memory_map = BootMap
          /\ modules \in EdgeModules
    /\ profile \in {"debug", "release"}
    /\ dv_call = [fn |-> "none", i |-> 0]
    /\ dv_ret = Returns(<<>>)

NextDerived ==
    \/ FbStartAddress
    \/ FbSize
    \/ FbSizeV2
    \/ FbEndAddress
    \/ \E i \in 1..memory_map.entries_len : EntryStartAddress(i)
    \/ \E i \in 1..memory_map.entries_len : EntrySize(i)
    \/ \E i \in 1..memory_map.entries_len : EntryEndAddress(i)
    \/ \E i \in 1..modules.module_len : ModuleSize(i)

SpecDerived == InitDerived /\ [][NextDerived]_vars

\* C11: size() of a framebuffer tag, legacy or v2, returns exactly
\* pitch * height * (bpp / 8) with the division rounding down, never a
\* wrapped value and never a panic; for width 800, height 600, pitch 3200
\* and bpp 32 that is 7,680,000.
C11_SizeIsPitchTimesHeightTimesBytes ==
    dv_call.fn \in {"FramebufferTag::size", "StivaleFramebufferTag::size"} =>
        /\ ~dv_ret.panicked
        /\ dv_ret.val = BigMul(BigMul(ToBig(framebuffer.pitch), framebuffer.height),
                               framebuffer.bpp \div 8)
        /\ (/\ framebuffer.width = 800
            /\ framebuffer.height = 600
            /\ framebuffer.pitch = 3200
            /\ framebuffer.bpp = 32) => dv_ret.val = ToBig(7680000)
        /\ framebuffer.bpp < 8 => dv_ret.val = <<>>

C11_Witness ==
    /\ dv_call.fn = "FramebufferTag::size"
    /\ framebuffer.width = 800
    /\ framebuffer.height = 600
    /\ framebuffer.pitch = 3200
    /\ framebuffer.bpp = 32
    /\ dv_ret = Returns(ToBig(7680000))


\* C12: end_address() of a framebuffer tag is start_address() + size() in
\* the usize arithmetic of the code: the exact sum whenever it fits 64 bits,
\* and beyond that what the same `+` gives (a panic in the debug profile,
\* the low 64 bits in the release profile).
C12_EndIsStartPlusSize ==
    dv_call.fn = "FramebufferTag::end_address" =>
        LET start == FramebufferTag_start_address(framebuffer).val
            size == FramebufferTag_size(framebuffer, profile).val
            sum == BigAdd(start, size)
        IN /\ dv_ret = Overflowing(sum, profile)
           /\ Fits64(sum) => dv_ret = Returns(sum)

C12_Witness ==
    /\ dv_call.fn = "FramebufferTag::end_address"
    /\ framebuffer.address = <<0, 0, 0, 253>>
    /\ FramebufferTag_size(framebuffer, profile).val = ToBig(7680000)
    /\ dv_ret = Returns(BigAdd(<<0, 0, 0, 253>>, ToBig(7680000)))

C14_EntryEndIsBasePlusLength ==
    \A i \in 1..memory_map.entries_len :
        LET e == memory_map.entry_array[i]
            start == MemoryMapEntry_start_address(e).val
            size == MemoryMapEntry_size(e).val
            sum == BigAdd(start, size)
        IN dv_call = [fn |-> "MemoryMapEntry::end_address", i |-> i] =>
               /\ start = e.base
               /\ size = e.length
               /\ dv_ret = Overflowing(sum, profile)
               /\ Fits64(sum) => dv_ret = Returns(sum)
               /\ (memory_map.entry_array = ExampleMap /\ i = 1) =>
                      dv_ret = Returns(memory_map.entry_array[2].base)

C14_Witness ==
    /\ dv_call = [fn |-> "MemoryMapEntry::end_address", i |-> 1]
    /\ memory_map.entry_array = ExampleMap
    /\ dv_ret = Returns(ToBig(4096))


\* ------------------------------------------------- building header values
\* The setters applied to one value are at most this many.
MaxOps == 2

\* Contents of a pointer or integer field: 0 is null / zero.
Vals == {0, 1, 2}

\* The three header descriptors: stivale2 (v2/header.rs), the earlier
\* stivale2 one (header/mod.rs) and stivale1 (v1/mod.rs).
HeaderKinds == {"v2::StivaleHeader", "header::StivaleHeader", "v1::StivaleHeader"}

\* The feature-request tags that make_header_tag! declares.
MacroTagKinds ==
    {"StivaleFramebufferHeaderTag", "StivaleTerminalHeaderTag",
     "StivaleSmpHeaderTag", "StivaleMtrrHeaderTag",
     "Stivale5LevelPagingHeaderTag", "StivaleUnmapNullHeaderTag",
     "StivaleAnyVideoTag"}

\* The feature-request tags written by hand.
LegacyTagKinds == {"HeaderFramebufferTag", "Header5LevelPagingTag", "HeaderTerminalTag"}

TagKinds == MacroTagKinds \cup LegacyTagKinds

\* The fields of each type besides a tag's identifier and next.
Payload(kind) ==
    CASE kind = "v2::StivaleHeader" -> {"entry_point", "stack", "flags", "tags"}
      [] kind = "header::StivaleHeader" -> {"entry_point", "stack", "flags", "tags"}
      [] kind = "v1::StivaleHeader" ->
            {"stack", "flags", "framebuffer_width", "framebuffer_height",
             "framebuffer_bpp", "entry_point"}
      [] kind = "StivaleFramebufferHeaderTag" ->
            {"framebuffer_width", "framebuffer_height", "framebuffer_bpp", "_padding"}
      [] kind = "StivaleTerminalHeaderTag" -> {"flags"}
      [] kind = "StivaleSmpHeaderTag" -> {"flags"}
      [] kind = "StivaleAnyVideoTag" -> {"preference"}
      [] kind = "HeaderFramebufferTag" -> {"width", "height", "bpp"}
      [] kind = "HeaderTerminalTag" -> {"flags"}
      [] OTHER -> {}

Fields(kind) ==
    IF kind \in TagKinds THEN {"identifier", "next"} \cup Payload(kind)
    ELSE Payload(kind)

\* The identifiers with those of the terminal and SMP requests exchanged.
Identifier_Exchanged(kind) ==
    CASE kind \in {"StivaleFramebufferHeaderTag", "HeaderFramebufferTag"} ->
            "0x3ecc1bc43d0f7971"
      [] kind \in {"StivaleTerminalHeaderTag", "HeaderTerminalTag"} ->
            "0x1ab015085f3273df"
      [] kind = "StivaleSmpHeaderTag" -> "0xa85d499b1823be72"
      [] kind = "StivaleMtrrHeaderTag" -> "0x4c7bb07731282e00"
      [] kind \in {"Stivale5LevelPagingHeaderTag", "Header5LevelPagingTag"} ->
            "0x932f477032007e8f"
      [] kind = "StivaleUnmapNullHeaderTag" -> "0x92919432b16fe7e7"
      [] kind = "StivaleAnyVideoTag" -> "0xc75c9fa92a44c4db"

\* The identifier constant each tag type stores in new().
Identifier(kind) ==
    CASE kind \in {"StivaleFramebufferHeaderTag", "HeaderFramebufferTag"} ->
            "0x3ecc1bc43d0f7971"
      [] kind \in {"StivaleTerminalHeaderTag", "HeaderTerminalTag"} ->
            "0xa85d499b1823be72"
      [] kind = "StivaleSmpHeaderTag" -> "0x1ab015085f3273df"
      [] kind = "StivaleMtrrHeaderTag" -> "0x4c7bb07731282e00"
      [] kind \in {"Stivale5LevelPagingHeaderTag", "Header5LevelPagingTag"} ->
            "0x932f477032007e8f"
      [] kind = "StivaleUnmapNullHeaderTag" -> "0x92919432b16fe7e7"
      [] kind = "StivaleAnyVideoTag" -> "0xc75c9fa92a44c4db"

\* The setters each type offers. make_header_tag! generates next and one
\* setter per payload field; the v2 and v1 headers have one per field; the
\* earlier header takes its stack in new() and has no setter for it.
Setters(kind) ==
    CASE kind \in MacroTagKinds -> {"next"} \cup Payload(kind)
      [] kind = "HeaderFramebufferTag" -> {"resolution", "bpp", "next"}
      [] kind \in {"Header5LevelPagingTag", "HeaderTerminalTag"} -> {"next"}
      [] kind = "header::StivaleHeader" -> {"entry_point", "flags", "tags"}
      [] OTHER -> Payload(kind)

\* The argument lists a setter takes: resolution(width, height) takes two.
Args(setter) ==
    IF setter = "resolution" THEN {<<w, h>> : w \in Vals, h \in Vals}
    ELSE {<<x>> : x \in Vals}

\* A new() whose tags start out chained to the record at address 1.
new_NextSet(kind, arg) ==
    [f \in Fields(kind) |->
        IF f = "identifier" THEN Identifier(kind)
        ELSE IF f = "next" THEN 1
        ELSE IF kind = "header::StivaleHeader" /\ f = "stack" THEN arg
        ELSE 0]

\* new(): the identifier constant, every pointer null and every other field
\* zero; header/mod.rs's new(stack) stores its argument as the stack.
new(kind, arg) ==
    [f \in Fields(kind) |->
        IF f = "identifier" THEN Identifier(kind)
        ELSE IF kind = "header::StivaleHeader" /\ f = "stack" THEN arg
        ELSE 0]


\* Setters whose stack() also clears the flags.
Setter_StackClearsFlags(kind, v, setter, args) ==
    IF setter = "resolution"
    THEN [v EXCEPT !["width"] = args[1], !["height"] = args[2]]
    ELSE IF setter = "stack"
    THEN [v EXCEPT !["stack"] = args[1], !["flags"] = 0]
    ELSE [v EXCEPT ![setter] = args[1]]

\* Setters whose bpp() / framebuffer_bpp() stores into the height field.
Setter_BppIntoHeight(kind, v, setter, args) ==
    IF setter = "resolution"
    THEN [v EXCEPT !["width"] = args[1], !["height"] = args[2]]
    ELSE IF setter = "bpp"
    THEN [v EXCEPT !["height"] = args[1]]
    ELSE IF setter = "framebuffer_bpp"
    THEN [v EXCEPT !["framebuffer_height"] = args[1]]
    ELSE [v EXCEPT ![setter] = args[1]]

\* A setter takes the value, stores its argument and returns the value:
\* `self.<field> = <argument>; self`. Every setter is named after the field
\* it stores into, but HeaderFramebufferTag::resolution(width, height),
\* which stores into width and into height.
Setter(kind, v, setter, args) ==
    IF setter = "resolution"
    THEN [v EXCEPT !["width"] = args[1], !["height"] = args[2]]
    ELSE [v EXCEPT ![setter] = args[1]]

\* The fields a setter stores into, in the order of its arguments.
Writes(setter) ==
    IF setter = "resolution" THEN <<"width", "height">> ELSE <<setter>>

\* T::new() (new(stack) for the earlier header).
HbNew(kind, arg) ==
    /\ hb_kind = "none"
    /\ hb_kind' = kind
    /\ hb_arg' = arg
    /\ hb_val' = new(kind, arg)
    /\ hb_prev' = new(kind, arg)
    /\ hb_ops' = <<>>
    /\ UNCHANGED notHbVars

\* value.setter(args)
HbSet(setter, args) ==
    /\ hb_kind # "none"
    /\ setter \in Setters(hb_kind)
    /\ Len(hb_ops) < MaxOps
    /\ hb_prev' = hb_val
    /\ hb_val' = Setter(hb_kind, hb_val, setter, args)
    /\ hb_ops' = Append(hb_ops, [setter |-> setter, args |-> args])
    /\ UNCHANGED <<hb_kind, hb_arg, notHbVars>>

AllSetters == UNION {Setters(k) : k \in HeaderKinds \cup TagKinds}

InitBuilder ==
    /\ NoTags
    /\ NoSmp
    /\ NoArrays
    /\ NoStrings
    /\ NoIters
    /\ NoDerived
    /\ NoBuilder
    /\ NoAcc
    /\ NoExt

NextBuilder ==
    \/ \E kind \in HeaderKinds \cup TagKinds :
         \E arg \in (IF kind = "header::StivaleHeader" THEN Vals ELSE {0}) :
            HbNew(kind, arg)
    \/ \E setter \in AllSetters : \E args \in Args(setter) : HbSet(setter, args)

SpecBuilder == InitBuilder /\ [][NextBuilder]_vars

\* The value the setter calls ops build from new(), one after the other.
RECURSIVE Replay(_, _, _)
Replay(kind, arg, ops) ==
    IF ops = <<>> THEN new(kind, arg)
    ELSE LET last == ops[Len(ops)]
         IN Setter(kind, Replay(kind, arg, SubSeq(ops, 1, Len(ops) - 1)),
                   last.setter, last.args)

\* ops with the calls at i and i + 1 exchanged.
Swap(ops, i) ==
    [k \in 1..Len(ops) |->
        IF k = i THEN ops[i + 1] ELSE IF k = i + 1 THEN ops[i] ELSE ops[k]]

Range(q) == {q[k] : k \in 1..Len(q)}

Call(setter, x) == [setter |-> setter, args |-> <<x>>]

\* C15: new().stack(p).flags(f) and new().flags(f).stack(p) are the same
\* value, with stack p and flags f and everything else as new() left it;
\* and exchanging two consecutive setter calls that store into different
\* fields never changes the value built.
C15_SettersCommute ==
    hb_kind # "none" =>
        /\ \A p \in Vals, f \in Vals :
              hb_ops \in {<<Call("stack", p), Call("flags", f)>>,
                          <<Call("flags", f), Call("stack", p)>>} =>
                  hb_val = [new(hb_kind, hb_arg) EXCEPT !["stack"] = p, !["flags"] = f]
        /\ \A i \in 1..(Len(hb_ops) - 1) :
              Range(Writes(hb_ops[i].setter)) \cap Range(Writes(hb_ops[i + 1].setter)) = {}
                  => hb_val = Replay(hb_kind, hb_arg, Swap(hb_ops, i))

C15_Witness ==
    /\ hb_kind = "v2::StivaleHeader"
    /\ hb_ops = <<Call("flags", 2), Call("stack", 1)>>
    /\ hb_val = [entry_point |-> 0, stack |-> 1, flags |-> 2, tags |-> 0]


\* The fields in which the value differs from the receiver of the last setter.
Changed == {f \in DOMAIN hb_val : hb_val[f] # hb_prev[f]}

\* The last setter call.
LastOp == hb_ops[Len(hb_ops)]

\* C16 as stated: a setter's result differs from its receiver in one field
\* at most, a field the setter stores its argument into.
C16_OneFieldChanged ==
    hb_ops # <<>> =>
        /\ Cardinality(Changed) <= 1
        /\ Changed \subseteq Range(Writes(LastOp.setter))
        /\ \A k \in 1..Len(Writes(LastOp.setter)) :
              hb_val[Writes(LastOp.setter)[k]] = LastOp.args[k]

\* C16: a setter's result differs from its receiver only in the fields the
\* setter stores into, each of which holds the matching argument: one field,
\* named like the setter, for every setter but
\* HeaderFramebufferTag::resolution(width, height), which stores both width
\* and height. Every other field, the identifier included, is as it was.
C16_OnlyWrittenFieldsChanged ==
    hb_ops # <<>> =>
        /\ Changed \subseteq Range(Writes(LastOp.setter))
        /\ \A k \in 1..Len(Writes(LastOp.setter)) :
              hb_val[Writes(LastOp.setter)[k]] = LastOp.args[k]
        /\ LastOp.setter # "resolution" =>
              /\ Writes(LastOp.setter) = <<LastOp.setter>>
              /\ Cardinality(Changed) <= 1
        /\ "identifier" \in DOMAIN hb_val => hb_val["identifier"] = hb_prev["identifier"]
        /\ DOMAIN hb_val = DOMAIN hb_prev

C16_Witness ==
    /\ hb_kind = "HeaderFramebufferTag"
    /\ hb_ops = <<[setter |-> "resolution", args |-> <<1, 2>>]>>
    /\ Changed = {"width", "height"}
    /\ hb_val["width"] = 1
    /\ hb_val["height"] = 2

\* C17 as stated: right after new() every field but the identifier is zero
\* or null, the stack of a header included.
C17_NewIsAllZero ==
    (hb_kind # "none" /\ hb_ops = <<>>) =>
        \A f \in DOMAIN hb_val \ {"identifier"} : hb_val[f] = 0

\* C17: right after new() every field but the identifier is zero or null,
\* except that the header of header/mod.rs, whose new(stack) takes the stack
\* pointer, holds that argument as its stack.
C17_NewIsZeroButGivenStack ==
    (hb_kind # "none" /\ hb_ops = <<>>) =>
        \A f \in DOMAIN hb_val \ {"identifier"} :
            IF hb_kind = "header::StivaleHeader" /\ f = "stack"
            THEN hb_val[f] = hb_arg
            ELSE hb_val[f] = 0

C17_Witness ==
    /\ hb_kind = "header::StivaleHeader"
    /\ hb_ops = <<>>
    /\ hb_arg = 2
    /\ hb_val = [entry_point |-> 0, stack |-> 2, flags |-> 0, tags |-> 0]

\* C18: a feature-request tag holds the identifier the protocol fixes for
\* its feature, right after new() and after any setters, next() included.
C18_IdentifierFixed ==
    hb_kind \in TagKinds =>
        hb_val["identifier"] =
            CASE hb_kind \in {"StivaleFramebufferHeaderTag", "HeaderFramebufferTag"} ->
                    "0x3ecc1bc43d0f7971"
              [] hb_kind \in {"StivaleTerminalHeaderTag", "HeaderTerminalTag"} ->
                    "0xa85d499b1823be72"
              [] hb_kind = "StivaleSmpHeaderTag" -> "0x1ab015085f3273df"
              [] hb_kind \in {"Stivale5LevelPagingHeaderTag", "Header5LevelPagingTag"} ->
                    "0x932f477032007e8f"
              [] hb_kind = "StivaleUnmapNullHeaderTag" -> "0x92919432b16fe7e7"
              [] hb_kind = "StivaleAnyVideoTag" -> "0xc75c9fa92a44c4db"
              [] hb_kind = "StivaleMtrrHeaderTag" -> "0x4c7bb07731282e00"

C18_Witness ==
    /\ hb_kind = "StivaleSmpHeaderTag"
    /\ hb_ops = <<Call("flags", 1), Call("next", 2)>>
    /\ hb_val = [identifier |-> "0x1ab015085f3273df", next |-> 2, flags |-> 1]


\* ------------------------------------------------------- typed accessors
\* The typed accessors of v2's StivaleStruct, by the names the code gives
\* them (the firmware accessor is spelled frimware there).
Accessors ==
    {"command_line", "memory_map", "framebuffer", "edid_info",
     "mtrr", "terminal", "modules", "rsdp",
     "smbios", "epoch", "frimware", "efi_system_table",
     "kernel_file", "kernel_slide", "smp", "pxe_info",
     "uart", "dev_tree", "vmap"}

\* The identifiers with pxe_info looking for the SMP tag's.
AccessorId_PxeAsSmp(accessor) ==
    CASE accessor = "command_line" -> "0xe5e76a1b4597a781"
      [] accessor = "memory_map" -> "0x2187f79e8612de07"
      [] accessor = "framebuffer" -> "0x506461d2950408fa"
      [] accessor = "edid_info" -> "0x968609d7af96b845"
      [] accessor = "mtrr" -> "0x6bc1a78ebe871172"
      [] accessor = "terminal" -> "0xc2b3f4c3233b0974"
      [] accessor = "modules" -> "0x4b6fe466aade04ce"
      [] accessor = "rsdp" -> "0x9e1786930a375e78"
      [] accessor = "smbios" -> "0x274bd246c62bf7d1"
      [] accessor = "epoch" -> "0x566a7bed888e1407"
      [] accessor = "frimware" -> "0x359d837855e3858c"
      [] accessor = "efi_system_table" -> "0x4bc5ec15845b558e"
      [] accessor = "kernel_file" -> "0xe599d90c2975584a"
      [] accessor = "kernel_slide" -> "0xee80847d01506c57"
      [] accessor = "smp" -> "0x34d1d96339647025"
      [] accessor = "pxe_info" -> "0x34d1d96339647025"
      [] accessor = "uart" -> "0xb813f9b8dbc78797"
      [] accessor = "dev_tree" -> "0xabb29bd49a2833fa"
      [] accessor = "vmap" -> "0xb0ed257db18cb58f"

\* The identifier each accessor hands to get_tag.
AccessorId(accessor) ==
    CASE accessor = "command_line" -> "0xe5e76a1b4597a781"
      [] accessor = "memory_map" -> "0x2187f79e8612de07"
      [] accessor = "framebuffer" -> "0x506461d2950408fa"
      [] accessor = "edid_info" -> "0x968609d7af96b845"
      [] accessor = "mtrr" -> "0x6bc1a78ebe871172"
      [] accessor = "terminal" -> "0xc2b3f4c3233b0974"
      [] accessor = "modules" -> "0x4b6fe466aade04ce"
      [] accessor = "rsdp" -> "0x9e1786930a375e78"
      [] accessor = "smbios" -> "0x274bd246c62bf7d1"
      [] accessor = "epoch" -> "0x566a7bed888e1407"
      [] accessor = "frimware" -> "0x359d837855e3858c"
      [] accessor = "efi_system_table" -> "0x4bc5ec15845b558e"
      [] accessor = "kernel_file" -> "0xe599d90c2975584a"
      [] accessor = "kernel_slide" -> "0xee80847d01506c57"
      [] accessor = "smp" -> "0x34d1d96339647025"
      [] accessor = "pxe_info" -> "0x29d1e96239247032"
      [] accessor = "uart" -> "0xb813f9b8dbc78797"
      [] accessor = "dev_tree" -> "0xabb29bd49a2833fa"
      [] accessor = "vmap" -> "0xb0ed257db18cb58f"

\* .map(|addr| unsafe { &*(addr as *const T) }): a view at the address
\* get_tag returned, absent when get_tag returned None.
MapView(r) == IF r.some THEN Some(r.val) ELSE None

\* self.get_tag(ID): the accessor enters get_tag with its identifier.
AccessorCall(accessor) ==
    /\ gt_pc = "idle"
    /\ acc' = accessor
    /\ acc_ret' = [returned |-> FALSE, view |-> None]
    /\ gt_pc' = "loop"
    /\ gt_id' = AccessorId(accessor)
    /\ current_tag' = tags
    /\ gt_ret' = None
    /\ examined' = 0
    /\ derefs' = {}
    /\ UNCHANGED <<notAccVars, mem, tags>>

\* get_tag has returned: the accessor maps the result and returns it.
AccessorReturn ==
    /\ gt_pc = "done"
    /\ acc # "none"
    /\ ~acc_ret.returned
    /\ gt_pc' = "idle"
    /\ acc_ret' = [returned |-> TRUE, view |-> MapView(gt_ret)]
    /\ UNCHANGED <<notAccVars, acc, mem, tags, gt_id, current_tag, gt_ret,
                   examined, derefs>>

\* The identifiers a bootloader's chain is made of here.
ChainIds == {AccessorId(a) : a \in Accessors}

\* The chains the accessors are tried on have this many records.
AccChainLens == 0..2

InitAcc ==
    /\ \E n \in AccChainLens :
        \E addrs \in InjSeqs(Addr, n) :
            \E ids \in [1..n -> ChainIds] :
                /\ mem = TagHeaders(addrs, ids)
                /\ tags = IF n = 0 THEN 0 ELSE addrs[1]
    /\ gt_pc = "idle"
    /\ gt_id = 0
    /\ current_tag = 0
    /\ gt_ret = None
    /\ examined = 0
    /\ derefs = {}
    /\ NoSmp
    /\ NoArrays
    /\ NoStrings
    /\ NoIters
    /\ NoDerived
    /\ NoBuilder
    /\ NoAcc
    /\ NoExt

NextAcc ==
    \/ \E accessor \in Accessors : AccessorCall(accessor)
    \/ GetTagCompare
    \/ GetTagExit
    \/ AccessorReturn

SpecAcc == InitAcc /\ [][NextAcc]_vars


\* C19: each typed accessor returns a view at exactly the address get_tag
\* gives for the response identifier the protocol fixes for its tag (the
\* first record of the chain carrying it), and is absent exactly when no
\* record carries it; no two accessors look for the same identifier.
C19_AccessorFindsItsTag ==
    LET Listed ==
            {<<"framebuffer", "0x506461d2950408fa">>,
             <<"terminal", "0xc2b3f4c3233b0974">>,
             <<"memory_map", "0x2187f79e8612de07">>,
             <<"rsdp", "0x9e1786930a375e78">>,
             <<"epoch", "0x566a7bed888e1407">>,
             <<"frimware", "0x359d837855e3858c">>,
             <<"modules", "0x4b6fe466aade04ce">>,
             <<"efi_system_table", "0x4bc5ec15845b558e">>,
             <<"kernel_file", "0xe599d90c2975584a">>,
             <<"kernel_slide", "0xee80847d01506c57">>,
             <<"smp", "0x34d1d96339647025">>,
             <<"command_line", "0xe5e76a1b4597a781">>,
             <<"edid_info", "0x968609d7af96b845">>,
             <<"smbios", "0x274bd246c62bf7d1">>,
             <<"pxe_info", "0x29d1e96239247032">>,
             <<"uart", "0xb813f9b8dbc78797">>,
             <<"dev_tree", "0xabb29bd49a2833fa">>,
             <<"vmap", "0xb0ed257db18cb58f">>}
    IN /\ acc # "none" =>
            \A other \in Accessors \ {acc} : AccessorId(other) # AccessorId(acc)
       /\ \A l \in Listed :
            (acc = l[1] /\ acc_ret.returned) =>
                LET found == {k \in 1..Len(Chain) : mem[Chain[k]].identifier = l[2]}
                IN /\ acc_ret.view.some <=> found # {}
                   /\ gt_ret.some <=> acc_ret.view.some
                   /\ found # {} =>
                        /\ acc_ret.view.val = gt_ret.val
                        /\ \E k \in found :
                            /\ acc_ret.view.val = Chain[k]
                            /\ \A j \in found : k <= j

C19_Witness ==
    /\ acc = "smp"
    /\ acc_ret.returned
    /\ Len(Chain) = 2
    /\ mem[Chain[1]].identifier = "0x29d1e96239247032"
    /\ mem[Chain[2]].identifier = "0x34d1d96339647025"
    /\ acc_ret.view = Some(Chain[2])


\* ------------------------------------------------ the reads, all together
\* The boot-information region: the root's chain pointer and strings, the
\* tag headers, the count fields and trailing arrays, the framebuffer tag
\* and the SMP descriptors.
region ==
    <<mem, tags, bootloader_brand, bootloader_version, memory_map, modules,
      framebuffer, smp_info>>

\* A region as a bootloader leaves it: a memory-map tag and a modules tag in
\* the chain, a brand that fills its buffer, a version that ends in NULs.
InitRead ==
    /\ mem = TagHeaders(<<2, 1>>, <<AccessorId("memory_map"), AccessorId("modules")>>)
    /\ tags = 2
    /\ gt_pc = "idle"
    /\ gt_id = 0
    /\ current_tag = 0
    /\ gt_ret = None
    /\ examined = 0
    /\ derefs = {}
    /\ NoSmp
    /\ bootloader_brand = Pad(<<97>>, 98, BrandLen)
    /\ bootloader_version = Abc(VersionLen)
    /\ str_call = "none"
    /\ str_data = <<>>
    /\ str_ret = [absent |-> TRUE, str |-> <<>>]
    /\ memory_map = BootMap
    /\ modules = BootModules
    /\ NoIters
    /\ framebuffer = BootFramebuffer
    /\ profile = "release"
    /\ dv_call = [fn |-> "none", i |-> 0]
    /\ dv_ret = Returns(<<>>)
    /\ NoBuilder
    /\ NoAcc
    /\ NoExt

\* The read operations of the library, in any order: get_tag, typed
\* accessors whose tag is first in the chain, second or missing, the string
\* accessors, the scalar getters, as_slice and the steps of an adapter.
NextRead ==
    \/ GetTagCall(AccessorId("modules"))
    \/ \E accessor \in {"memory_map", "modules", "vmap"} : AccessorCall(accessor)
    \/ GetTagCompare
    \/ GetTagExit
    \/ GetTagReturn /\ (acc = "none" \/ acc_ret.returned)
    \/ AccessorReturn
    \/ NextStr
    \/ NextDerived
    \/ \E sref \in {"memory_map", "modules"} : Iter("a", sref)
    \/ IterNextSome("a")
    \/ IterNextNone("a")

SpecRead == InitRead /\ [][NextRead]_vars


\* C20: no read operation writes to the boot-information region: across
\* every step of get_tag, of a typed accessor, of a string accessor, of a
\* scalar getter and of an adapter, the root structure, the tag headers, the
\* count fields and the trailing arrays stay what they were.
C20_ReadsLeaveRegionUnchanged == [][region' = region]_vars

C20_Witness ==
    /\ acc = "modules"
    /\ acc_ret = [returned |-> TRUE, view |-> Some(1)]
    /\ str_call = "StivaleStruct::bootloader_brand"
    /\ dv_call.fn = "MemoryMapEntry::end_address"
    /\ iters["a"].live
    /\ iters["a"].sref = "memory_map"
    /\ iters["a"].last = NoneElem
    /\ Len(iters["a"].yielded) = 2
    /\ mem = TagHeaders(<<2, 1>>, <<AccessorId("memory_map"), AccessorId("modules")>>)
    /\ tags = 2
    /\ bootloader_brand = Pad(<<97>>, 98, BrandLen)
    /\ bootloader_version = Abc(VersionLen)
    /\ memory_map = BootMap
    /\ modules = BootModules
    /\ framebuffer = BootFramebuffer


\* ------------------------------------------------------ concurrent readers
\* Number of execution contexts reading the region at the same time.
MaxReaders == 2
Readers == 1..MaxReaders

\* What a reader holds on its own stack: the operation it runs, where it
\* stands in it, the identifier argument, its cursor (current_tag, length or
\* current) and its result.
IdleReader ==
    [op |-> "none", pc |-> "idle", id |-> 0, cur |-> 0, out |-> <<>>]

\* One cursor for all readers: a step of one moves every running reader.
RdAdvance_Shared(rds, r, to) ==
    [q \in DOMAIN rds |-> IF rds[q].pc = "run" THEN [rds[q] EXCEPT !.cur = to] ELSE rds[q]]

\* A reader's cursor is a local of its own call frame (current_tag in
\* get_tag, length in string_from_slice) or a field of its own adapter
\* (current): a step moves the cursor of that reader alone.
RdAdvance(rds, r, to) == [rds EXCEPT ![r].cur = to]

\* A reader's operation ends with the result v.
RdDone(rds, r, v) == [rds EXCEPT ![r].pc = "done", ![r].out = v]

\* v2/mod.rs get_tag, entered by reader r:
\* let mut current_tag = self.tags as *const StivaleTagHeader;
RdGetTagCall(r, identifier) ==
    /\ readers[r].pc = "idle"
    /\ readers' = [readers EXCEPT ![r] =
            [op |-> "get_tag", pc |-> "run", id |-> identifier,
             cur |-> tags, out |-> None]]
    /\ UNCHANGED notReaderVars

\* One turn of reader r's while loop.
RdGetTagCompare(r) ==
    /\ readers[r].op = "get_tag" /\ readers[r].pc = "run"
    /\ readers[r].cur # 0
    /\ LET tag == Deref(readers[r].cur) IN
        readers' = IF tag.identifier = readers[r].id
                   THEN RdDone(readers, r, Some(readers[r].cur))
                   ELSE RdAdvance(readers, r, tag.next)
    /\ UNCHANGED notReaderVars

\* Reader r's loop condition fails: None.
RdGetTagExit(r) ==
    /\ readers[r].op = "get_tag" /\ readers[r].pc = "run"
    /\ readers[r].cur = 0
    /\ readers' = RdDone(readers, r, None)
    /\ UNCHANGED notReaderVars

\* v2/mod.rs bootloader_brand -> utils.rs string_from_slice: let mut length = 0;
RdStringCall(r) ==
    /\ readers[r].pc = "idle"
    /\ readers' = [readers EXCEPT ![r] =
            [op |-> "bootloader_brand", pc |-> "run", id |-> 0,
             cur |-> 0, out |-> <<>>]]
    /\ UNCHANGED notReaderVars

\* while length < slice.len() && slice[length] != 0 { length += 1; }
RdStringScan(r) ==
    /\ readers[r].op = "bootloader_brand" /\ readers[r].pc = "run"
    /\ LET length == readers[r].cur IN
        IF length < Len(bootloader_brand) /\ bootloader_brand[length + 1] # 0
        THEN readers' = RdAdvance(readers, r, length + 1)
        ELSE readers' = RdDone(readers, r, from_raw_parts(bootloader_brand, length))
    /\ UNCHANGED notReaderVars

\* v2/tag.rs StivaleMemoryMapEntry::end_address on the i-th entry.
RdGetter(r, i) ==
    /\ readers[r].pc = "idle"
    /\ i \in 1..memory_map.entries_len
    /\ readers' = [readers EXCEPT ![r] =
            [op |-> "end_address", pc |-> "done", id |-> i, cur |-> 0,
             out |-> MemoryMapEntry_end_address(memory_map.entry_array[i], profile)]]
    /\ UNCHANGED notReaderVars

\* v2/tag.rs StivaleMemoryMapTag::iter: reader r makes its own adapter.
RdIter(r) ==
    /\ readers[r].pc = "idle"
    /\ readers' = [readers EXCEPT ![r] =
            [op |-> "iter", pc |-> "run", id |-> 0,
             cur |-> iter("memory_map").current, out |-> <<>>]]
    /\ UNCHANGED notReaderVars

\* StivaleMemoryMapIter::next on reader r's adapter; the reader stops at the
\* first None.
RdIterNext(r) ==
    /\ readers[r].op = "iter" /\ readers[r].pc = "run"
    /\ LET current == readers[r].cur IN
        IF current < Count("memory_map")
        THEN readers' =
                [RdAdvance(readers, r, current + 1) EXCEPT
                    ![r].out = Append(readers[r].out, as_slice("memory_map")[current + 1])]
        ELSE readers' = RdDone(readers, r, readers[r].out)
    /\ UNCHANGED notReaderVars

\* The reader takes its result and is free for another operation.
RdReturn(r) ==
    /\ readers[r].pc = "done"
    /\ readers' = [readers EXCEPT ![r] = IdleReader]
    /\ UNCHANGED notReaderVars

\* The tag chains the readers look through: none, and three records at
\* addresses 3, 1, 2 of which the first and the last carry one identifier.
ReaderChains ==
    {[mem |-> <<>>, tags |-> 0],
     [mem |-> TagHeaders(<<3, 1, 2>>, <<2, 1, 2>>), tags |-> 3]}

\* A region no one writes: no SMP wake is in progress and no single-threaded
\* call runs.
InitConc ==
    /\ \E c \in ReaderChains : mem = c.mem /\ tags = c.tags
    /\ gt_pc = "idle"
    /\ gt_id = 0
    /\ current_tag = 0
    /\ gt_ret = None
    /\ examined = 0
    /\ derefs = {}
    /\ NoSmp
    /\ bootloader_brand \in {Abc(BrandLen), Nuls(BrandLen)}
    /\ bootloader_version = Nuls(VersionLen)
    /\ str_call = "none"
    /\ str_data = <<>>
    /\ str_ret = [absent |-> TRUE, str |-> <<>>]
    /\ memory_map = [entries_len |-> Len(ExampleMap), entry_array |-> ExampleMap]
    /\ modules = [module_len |-> 0, modules_array |-> <<>>]
    /\ NoIters
    /\ NoDerived
    /\ NoBuilder
    /\ NoAcc
    /\ readers = [r \in Readers |-> IdleReader]
    /\ NoLog
    /\ NoTerm
    /\ NoV1

NextConc ==
    \E r \in Readers :
        \/ \E identifier \in Ids : RdGetTagCall(r, identifier)
        \/ RdGetTagCompare(r)
        \/ RdGetTagExit(r)
        \/ RdStringCall(r)
        \/ RdStringScan(r)
        \/ \E i \in 1..MaxEntries : RdGetter(r, i)
        \/ RdIter(r)
        \/ RdIterNext(r)
        \/ RdReturn(r)

SpecConc == InitConc /\ [][NextConc]_vars

\* What the operation a reader runs returns when nothing else runs: the
\* address of the first record carrying the identifier, the brand up to its
\* first NUL, the entry's base + length, and the whole memory map in order.
Alone(rd) ==
    IF rd.op = "get_tag"
    THEN IF Carriers(rd.id) = {} THEN None
         ELSE Some(Chain[CHOOSE k \in Carriers(rd.id) :
                            \A j \in Carriers(rd.id) : k <= j])
    ELSE IF rd.op = "bootloader_brand" THEN BeforeFirstNul(bootloader_brand)
    ELSE IF rd.op = "end_address"
    THEN Returns(BigAdd(memory_map.entry_array[rd.id].base,
                        memory_map.entry_array[rd.id].length))
    ELSE memory_map.entry_array

\* C21: whatever the other readers are doing over the same region, and
\* however their steps interleave, a reader that has finished get_tag, the
\* brand decoding, the end_address getter or a walk of its adapter holds the
\* result the operation gives when it runs alone.
C21_ReadersDoNotInterfere ==
    \A r \in Readers :
        readers[r].pc = "done" => readers[r].out = Alone(readers[r])

C21_Witness ==
    /\ tags = 3
    /\ readers[1].op = "get_tag" /\ readers[1].pc = "done"
    /\ readers[1].id = 1 /\ readers[1].out = Some(1)
    /\ readers[2].op = "iter" /\ readers[2].pc = "run" /\ readers[2].cur = 1


\* ------------------------------------------------- get_tag, call after call
\* The caller takes the result and keeps a note of the call: its
\* identifier, its result and the number of records it compared.
GetTagReturnNoted ==
    /\ gt_pc = "done"
    /\ gt_pc' = "idle"
    /\ gt_log' = [set |-> TRUE, id |-> gt_id, ret |-> gt_ret, examined |-> examined]
    /\ UNCHANGED <<mem, tags, gt_id, current_tag, gt_ret, examined, derefs>>
    /\ UNCHANGED <<smpVars, arrVars, strVars, iters, dvVars, hbVars, accVars, notLogVars>>

\* Chains of up to MaxChain records at descending addresses, with any
\* identifiers; no lookup has run.
InitLog ==
    /\ \E n \in 0..MaxChain :
        \E ids \in [1..n -> Ids] :
            /\ mem = TagHeaders([k \in 1..n |-> n + 1 - k], ids)
            /\ tags = n
    /\ gt_pc = "idle"
    /\ gt_id = 0
    /\ current_tag = 0
    /\ gt_ret = None
    /\ examined = 0
    /\ derefs = {}
    /\ NoSmp
    /\ NoArrays
    /\ NoStrings
    /\ NoIters
    /\ NoDerived
    /\ NoBuilder
    /\ NoAcc
    /\ NoReaders
    /\ NoLog
    /\ NoTerm
    /\ NoV1

\* Lookups one after the other; the caller notes a call or lets it pass.
NextLog ==
    \/ \E identifier \in Ids : GetTagCall(identifier)
    \/ GetTagCompare
    \/ GetTagExit
    \/ GetTagReturn
    \/ GetTagReturnNoted

SpecLog == InitLog /\ [][NextLog]_vars

\* C22: a lookup begins at the address in the root's tags field, and when it
\* has returned, its result and the number of records it compared are those
\* of any earlier call with the same identifier, whichever lookups ran
\* between the two.
C22_GetTagKeepsNoState ==
    /\ (gt_pc = "loop" /\ examined = 0) => current_tag = tags
    /\ (gt_pc = "done" /\ gt_log.set /\ gt_log.id = gt_id) =>
            (gt_ret = gt_log.ret /\ examined = gt_log.examined)

\* An earlier call found identifier 1 at the third record of a chain whose
\* first record carries 2; a later call for 1 has returned the same address.
C22_Witness ==
    /\ gt_pc = "done"
    /\ gt_log.set /\ gt_log.id = 1 /\ gt_log.examined = 3
    /\ gt_id = 1 /\ gt_ret = Some(1)
    /\ Len(Chain) = 3 /\ Carries(1, 2)


\* ------------------------------------------------------- terminal writing
\* The execution contexts that write to the terminal.
Contexts == 1..MaxReaders

\* A &str argument: where its bytes lie, the UTF-8 bytes, and how many
\* characters they encode ("Hi", the empty text, and a two-byte character).
Texts ==
    {[ptr |-> 16, bytes |-> <<72, 105>>, chars |-> 2],
     [ptr |-> 32, bytes |-> <<>>, chars |-> 0],
     [ptr |-> 48, bytes |-> <<195, 169>>, chars |-> 1]}

\* The three entry points: the closure of v2's term_write, the closure of
\* terminal.rs's get_term_write_func, and tag.rs's direct term_write(text).
TermApis ==
    {"v2::StivaleTerminalTag::term_write", "TerminalTag::get_term_write_func",
     "tag::StivaleTerminalTag::term_write"}

\* A context that holds no closure and is in no call.
NoCall == [ptr |-> 0, len |-> 0, fn |-> 0]
IdleContext ==
    [api |-> "none", pc |-> "idle", captured |-> 0, txt |-> [ptr |-> 0, bytes |-> <<>>, chars |-> 0],
     calls |-> 0, arg |-> NoCall]

\* A length argument that counts characters.
txt_len_Chars(txt) == txt.chars

\* txt.len() as u64 / bytes.len(): the length of the text in bytes.
txt_len(txt) == Len(txt.bytes)

\* txt.as_ptr() / bytes.as_ptr()
txt_as_ptr(txt) == txt.ptr

\* let term_write = tag.term_write(): the field is transmuted to a function
\* pointer, the returned closure captures it.  (tag.rs has no closure; the
\* transmute happens inside each call.)
TermWriteFunc(c, api) ==
    /\ term.ctx[c].pc = "idle"
    /\ term' = [term EXCEPT !.ctx[c] =
                    [IdleContext EXCEPT !.api = api, !.pc = "ready",
                                        !.captured = term.term_write_addr]]
    /\ UNCHANGED notTermVars

\* term_write(txt): the context enters the closure (or the method).
TermWriteEnter(c, txt) ==
    /\ term.ctx[c].pc \in {"ready", "returned"}
    /\ term' = [term EXCEPT !.ctx[c].pc = "entered", !.ctx[c].txt = txt,
                            !.ctx[c].calls = 0, !.ctx[c].arg = NoCall]
    /\ UNCHANGED notTermVars

\* __term_func(txt.as_ptr() as *const i8, txt.len() as u64): control passes
\* to the bootloader's routine; nothing is acquired on the way.
TermFuncCall(c) ==
    /\ term.ctx[c].pc = "entered"
    /\ term' = [term EXCEPT
            !.ctx[c].pc = "inside",
            !.ctx[c].calls = @ + 1,
            !.ctx[c].arg = [ptr |-> txt_as_ptr(term.ctx[c].txt),
                            len |-> txt_len(term.ctx[c].txt),
                            fn |-> term.ctx[c].captured]]
    /\ UNCHANGED notTermVars

\* The bootloader's routine returns, and with it the closure.
TermFuncReturn(c) ==
    /\ term.ctx[c].pc = "inside"
    /\ term' = [term EXCEPT !.ctx[c].pc = "returned"]
    /\ UNCHANGED notTermVars

\* The addresses a bootloader may put into the terminal tag's term_write field.
TermWriteAddrs == {4096, 8192}

InitTerm ==
    /\ NoTags
    /\ NoSmp
    /\ NoArrays
    /\ NoStrings
    /\ NoIters
    /\ NoDerived
    /\ NoBuilder
    /\ NoAcc
    /\ NoReaders
    /\ NoLog
    /\ NoV1
    /\ \E a \in TermWriteAddrs :
        term = [term_write_addr |-> a, ctx |-> [c \in Contexts |-> IdleContext]]

NextTerm ==
    \E c \in Contexts :
        \/ \E api \in TermApis : TermWriteFunc(c, api)
        \/ \E txt \in Texts : TermWriteEnter(c, txt)
        \/ TermFuncCall(c)
        \/ TermFuncReturn(c)

SpecTerm == InitTerm /\ [][NextTerm]_vars

\* C23: nothing holds a context back from the bootloader's routine while
\* another context is inside it (the layer takes no lock), and an
\* invocation that has returned has called the routine at the tag's
\* term_write address exactly once, with the text's pointer and its length
\* in bytes.
C23_TermWriteUnserialized ==
    \A c \in Contexts :
        /\ term.ctx[c].pc = "entered" => ENABLED TermFuncCall(c)
        /\ term.ctx[c].pc = "entered" => term.ctx[c].calls = 0
        /\ term.ctx[c].pc \in {"inside", "returned"} =>
            /\ term.ctx[c].calls = 1
            /\ term.ctx[c].arg =
                [ptr |-> term.ctx[c].txt.ptr, len |-> Len(term.ctx[c].txt.bytes),
                 fn |-> term.term_write_addr]

\* Two contexts are inside the bootloader's routine at the same time, one
\* of them with a text whose byte length differs from its character count.
C23_Witness ==
    /\ term.ctx[1].pc = "inside" /\ term.ctx[2].pc = "inside"
    /\ term.ctx[1].api = "v2::StivaleTerminalTag::term_write"
    /\ term.ctx[2].api = "TerminalTag::get_term_write_func"
    /\ term.ctx[1].txt.ptr = 48 /\ term.ctx[1].arg.len = 2


\* ------------------------------------------------------ chains with a cycle
\* The region for the chain `addrs` whose last record points back to the
\* record at position back; back = 0 leaves the chain terminated.
LoopedHeaders(addrs, ids, back) ==
    IF back = 0 THEN TagHeaders(addrs, ids)
    ELSE [TagHeaders(addrs, ids) EXCEPT ![addrs[Len(addrs)]].next = addrs[back]]

\* Chains of up to MaxChain records at descending addresses whose last next
\* pointer is zero or the address of any record of the chain.
InitCycle ==
    /\ \E n \in 0..MaxChain :
        \E ids \in [1..n -> Ids] :
            \E back \in 0..n :
                /\ mem = LoopedHeaders([k \in 1..n |-> n + 1 - k], ids, back)
                /\ tags = n
    /\ gt_pc = "idle"
    /\ gt_id = 0
    /\ current_tag = 0
    /\ gt_ret = None
    /\ examined = 0
    /\ derefs = {}
    /\ NoSmp
    /\ NoArrays
    /\ NoStrings
    /\ NoIters
    /\ NoDerived
    /\ NoBuilder
    /\ NoAcc
    /\ NoExt

\* The lookup is sequential code: once inside the loop the processor keeps
\* executing it, so each loop step is weakly fair.
SpecCycle ==
    InitCycle /\ [][NextTag]_vars /\ WF_vars(GetTagCompare) /\ WF_vars(GetTagExit)

\* Following next pointers from the root never reaches zero: with MaxChain
\* addresses, a walk of MaxChain + 1 records has come round.
Cyclic == Len(Chain) = MaxChain + 1

\* The address of the first record reached from the root that carries id.
FirstCarrier(id) ==
    Chain[CHOOSE k \in Carriers(id) : \A j \in Carriers(id) : k <= j]

\* C24: on a chain whose next pointers form a cycle, a lookup of an
\* identifier no reachable record carries stays in its loop for ever, and a
\* lookup of an identifier some reachable record carries returns, and what
\* it returns is the address of the first such record.
C24_NoCycleDetection ==
    /\ []((Cyclic /\ gt_pc = "loop" /\ Carriers(gt_id) = {}) => [](gt_pc = "loop"))
    /\ (Cyclic /\ gt_pc = "loop" /\ Carriers(gt_id) # {}) ~> (gt_pc = "done")
    /\ []((Cyclic /\ gt_pc = "done") =>
            (Carriers(gt_id) # {} /\ gt_ret = Some(FirstCarrier(gt_id))))

\* A lookup of an absent identifier that has been round a three-record
\* cycle and is still in its loop.
C24_Witness ==
    /\ Cyclic
    /\ Cardinality(DOMAIN mem) = 3
    /\ gt_pc = "loop"
    /\ Carriers(gt_id) = {}
    /\ examined = MaxExamined
    /\ current_tag # 0


\* ---------------------------------------------------- cursor of an adapter
\* A step of next() on the adapter in slot a: the adapter after the step has
\* been called (a slot refilled by iter() or clone() has not).
Stepped(a) == iters[a].live /\ iters'[a] # iters[a] /\ iters'[a].last.called

\* C25: the cursor of every adapter stays within 0..count; a step that
\* yields an element read it at the cursor's index, which was below count;
\* and a step on an adapter whose last step gave none gives none again and
\* does not move the cursor.
C25_CursorWithinCount ==
    /\ [](\A a \in Slots :
            iters[a].live =>
                (0 <= iters[a].current /\ iters[a].current <= Count(iters[a].sref)))
    /\ [][\A a \in Slots :
            /\ (Stepped(a) /\ iters'[a].last.some) =>
                /\ iters[a].current < Count(iters[a].sref)
                /\ iters'[a].last.val = ArrayOf(iters[a])[iters[a].current + 1]
            /\ (iters[a].live /\ iters[a].last = NoneElem /\ iters'[a].last.called) =>
                /\ iters'[a].last = NoneElem
                /\ iters'[a].current = iters[a].current]_vars

\* An adapter over a modules tag with two modules that has given none and
\* stands at the count.
C25_Witness ==
    /\ modules.module_len = 2
    /\ iters["a"].live /\ iters["a"].sref = "modules"
    /\ iters["a"].last = NoneElem
    /\ iters["a"].current = 2
    /\ Len(iters["a"].yielded) = 2


\* ------------------------------------------------- buffers without a NUL
\* C26: a buffer without a NUL byte is decoded to all of its bytes, 64 for
\* the brand and the version and 128 for a module name, by either decoder;
\* the scan index ends at the buffer length, not beyond, and every index
\* the scan reads lies inside the buffer.
C26_NoNulYieldsWholeBuffer ==
    (str_call # "none" /\ ~HasNul(str_data)) =>
        /\ ~str_ret.absent
        /\ str_ret.str = str_data
        /\ Len(str_ret.str) =
            (IF str_call \in ModuleNameCalls THEN ModuleStringLen ELSE BrandLen)
        /\ ScanU8(str_data, 0) = Len(str_data)
        /\ ScanSlice(str_data, 0) = Len(str_data)
        /\ ScanReads(str_data) = 0..(Len(str_data) - 1)

\* A 128-byte module name without a NUL, decoded by as_str to 128 bytes.
C26_Witness ==
    /\ str_call = "StivaleModule::as_str"
    /\ ~HasNul(str_data)
    /\ Len(str_ret.str) = ModuleStringLen


\* ------------------------------------------------- range of the arithmetic
\* C27: end_address() of a memory-map entry returns the exact sum
\* base + length, without wrapping modulo 2^64 and without a panic, whatever
\* 64-bit base and length the entry holds.
C27_EndAddressNeverOverflows ==
    \A i \in 1..memory_map.entries_len :
        dv_call = [fn |-> "MemoryMapEntry::end_address", i |-> i] =>
            LET e == memory_map.entry_array[i] IN
                /\ Fits64(BigAdd(e.base, e.length))
                /\ dv_ret = Returns(BigAdd(e.base, e.length))

\* The largest size() there is: pitch and height 65535, bpp 65535.
MaxFbSize == BigMul(BigMul(ToBig(65535), 65535), 65535 \div 8)

\* C28: for all 16-bit pitch, height and bpp the product
\* pitch * height * (bpp / 8), and the partial product pitch * height before
\* it, is below 2^64 (below 2^48 even), so size() returns it in either build
\* profile without overflowing; for bpp below 8 it returns 0.
C28_SizeFits64 ==
    dv_call.fn \in {"FramebufferTag::size", "StivaleFramebufferTag::size"} =>
        LET rows == BigMul(ToBig(framebuffer.pitch), framebuffer.height)
            exact == BigMul(rows, framebuffer.bpp \div 8)
        IN /\ Fits64(rows) /\ Fits64(exact)
           /\ BigLess(exact, Two64)
           /\ ~BigLess(MaxFbSize, exact)
           /\ Len(MaxFbSize) <= 6
           /\ FramebufferTag_size(framebuffer, "debug") = Returns(exact)
           /\ FramebufferTag_size(framebuffer, "release") = Returns(exact)
           /\ StivaleFramebufferTag_size(framebuffer, "debug") = Returns(exact)
           /\ dv_ret = Returns(exact)
           /\ framebuffer.bpp < 8 => dv_ret = Returns(<<>>)

\* size() of the largest framebuffer, 65535 * 65535 * 8191 bytes, and of
\* one with 7 bits per pixel.
C28_Witness ==
    /\ dv_call.fn = "FramebufferTag::size"
    /\ framebuffer.pitch = 65535 /\ framebuffer.height = 65535
    /\ framebuffer.bpp = 65535
    /\ dv_ret = Returns(MaxFbSize)
    /\ profile = "debug"


\* ------------------------------------------------- the two string decoders
\* C29: on the buffer of any accessor call, string_from_u8 and
\* string_from_slice give the same non-empty string when the first byte is
\* not NUL; when it is NUL, string_from_u8 gives absent and
\* string_from_slice the empty string; and what the accessor returned is the
\* result of one of the two.
C29_DecodersAgree ==
    str_call # "none" =>
        LET u == string_from_u8(str_data)
            sl == string_from_slice(str_data)
        IN /\ str_data[1] # 0 => (u.some /\ u.val = sl /\ sl # <<>>)
           /\ str_data[1] = 0 => (~u.some /\ sl = <<>>)
           /\ (u.some /\ u.val = sl) <=> str_data[1] # 0
           /\ str_ret \in {OfOption(u), OfStr(sl)}

\* A version buffer "a", NUL, then 'b's: both decoders give "a".
C29_Witness ==
    /\ str_call = "StivaleStruct::bootloader_version"
    /\ str_data = Pad(<<97, 0>>, 98, VersionLen)
    /\ str_ret = OfStr(<<97>>)
    /\ string_from_u8(str_data) = SomeStr(<<97>>)


\* ------------------------------------------------- stivale1 root structure
\* size_of::<StivaleMemoryMapEntry>(): base, length, entry_type and padding.
SizeOfEntry == 24
\* size_of::<StivaleStruct>() as v1/mod.rs declares it.
SizeOfRoot == 88

\* #[repr(C)] offsets of the first fields of v1's StivaleStruct: the
\* zero-length array memory_map_array takes no room, so memory_map_len lies
\* at the same offset.
OffsetOf(field) ==
    CASE field = "command_line" -> 0
      [] field = "memory_map_array" -> 8
      [] field = "memory_map_len" -> 8
      [] field = "framebuffer_addr" -> 16

\* Where the bootloader places the root structure, and the memory-map array
\* behind it (low addresses: the walk below takes as many steps as the
\* array's address is large).
RootAddrs == {8}
MapAddrs == {8 + SizeOfRoot, 8 + SizeOfRoot + 8}

\* The entries a stivale1 bootloader reports: k regions of 4 KiB, in
\* ascending order, of type 1 (usable) or 2 (reserved).
V1Maps ==
    UNION {[1..k -> {[base |-> 0, length |-> 4096, entry_type |-> 1],
                     [base |-> 4096, length |-> 4096, entry_type |-> 2]}] :
           k \in 0..MaxEntries}

\* The 64-bit words the bootloader has written: the root structure at
\* `root` (command line, pointer to the memory-map array, number of its
\* entries, then the remaining fields, cleared) and the array at `map`.
BootRam(root, map, entries) ==
    [a \in {root + 8 * w : w \in 0..(SizeOfRoot \div 8 - 1)}
           \cup {map + 8 * j : j \in 0..(3 * Len(entries) - 1)} |->
        IF a = root + 8 THEN map
        ELSE IF a = root + 16 THEN Len(entries)
        ELSE IF a < root + SizeOfRoot THEN 0
        ELSE LET j == (a - map) \div 8
                 e == entries[j \div 3 + 1]
             IN IF j % 3 = 0 THEN e.base
                ELSE IF j % 3 = 1 THEN e.length
                ELSE e.entry_type]

\* What a load from memory the bootloader did not write may give.
UBWords == {0, 1}

\* The values a u64 load at address a can give.
Load(a) == IF a \in DOMAIN v1.ram THEN {v1.ram[a]} ELSE UBWords

\* self.memory_map_len
memory_map_len == v1.ram[v1.root + OffsetOf("memory_map_len")]

\* self.memory_map_array.as_ptr(): the address of the zero-length array
\* field itself.
memory_map_array_as_ptr == v1.root + OffsetOf("memory_map_array")

\* memory_map_as_slice():
\* from_raw_parts(self.memory_map_array.as_ptr(), self.memory_map_len as usize)
memory_map_as_slice == [ptr |-> memory_map_array_as_ptr, len |-> memory_map_len]

\* let s = boot.memory_map_as_slice();
V1AsSlice ==
    /\ v1.root # 0
    /\ v1' = [v1 EXCEPT !.slice = [called |-> TRUE,
                                   ptr |-> memory_map_as_slice.ptr,
                                   len |-> memory_map_as_slice.len]]
    /\ UNCHANGED notV1Vars

\* let it = boot.memory_map_iter();
V1Iter ==
    /\ v1.root # 0
    /\ v1' = [v1 EXCEPT !.it = [live |-> TRUE, current |-> 0, last |-> NotCalled]]
    /\ UNCHANGED notV1Vars

\* StivaleMemoryMapIter::next, the element branch:
\* &self.sref.memory_map_as_slice()[self.current as usize]
V1IterNextSome ==
    /\ v1.it.live
    /\ v1.it.current < memory_map_len
    /\ LET at == memory_map_as_slice.ptr + SizeOfEntry * v1.it.current IN
        \E b \in Load(at), l \in Load(at + 8), t \in Load(at + 16) :
            v1' = [v1 EXCEPT
                    !.it.current = @ + 1,
                    !.it.last = SomeElem([base |-> b, length |-> l, entry_type |-> t])]
    /\ UNCHANGED notV1Vars

\* StivaleMemoryMapIter::next, the else branch.
V1IterNextNone ==
    /\ v1.it.live
    /\ ~(v1.it.current < memory_map_len)
    /\ v1' = [v1 EXCEPT !.it.last = NoneElem]
    /\ UNCHANGED notV1Vars

InitV1 ==
    /\ NoTags
    /\ NoSmp
    /\ NoArrays
    /\ NoStrings
    /\ NoIters
    /\ NoDerived
    /\ NoBuilder
    /\ NoAcc
    /\ NoReaders
    /\ NoLog
    /\ NoTerm
    /\ \E root \in RootAddrs, map \in MapAddrs, entries \in V1Maps :
        v1 = [ram |-> BootRam(root, map, entries),
              root |-> root,
              slice |-> [called |-> FALSE, ptr |-> 0, len |-> 0],
              it |-> [live |-> FALSE, current |-> 0, last |-> NotCalled]]

NextV1 ==
    \/ V1AsSlice
    \/ V1Iter
    \/ V1IterNextSome
    \/ V1IterNextNone

SpecV1 == InitV1 /\ [][NextV1]_vars

\* The address held in the root structure's memory-map pointer field, and
\* the k-th entry (from 0) of the array stored there.
MemoryMapPointer == v1.ram[v1.root + 8]
PointedEntry(k) ==
    LET at == MemoryMapPointer + SizeOfEntry * k
    IN IF at + 16 \in DOMAIN v1.ram
       THEN [base |-> v1.ram[at], length |-> v1.ram[at + 8],
             entry_type |-> v1.ram[at + 16]]
       ELSE NoElem

\* C30: the slice memory_map_as_slice() returns starts at the address held
\* in the root structure's memory-map pointer field, outside the root
\* structure, and has memory_map_len entries; the element memory_map_iter()
\* has just yielded is the entry of that array at the cursor's last index.
C30_V1MapIsPointedArray ==
    /\ v1.slice.called =>
        /\ v1.slice.ptr = MemoryMapPointer
        /\ v1.slice.ptr \notin v1.root..(v1.root + SizeOfRoot - 1)
        /\ v1.slice.len = memory_map_len
    /\ (v1.it.live /\ v1.it.last.some) =>
        v1.it.last.val = PointedEntry(v1.it.current - 1)
====
